---- MODULE Spec2Model ----
(***************************************************************************)
(* Harmodel: model synthesis (harmodel/models.py, ModelGenerator) and      *)
(* client synthesis (harmodel/client.py, ClientGenerator) from captured    *)
(* HTTP calls.                                                             *)
(*                                                                         *)
(* Representation.  A Python str that the code inspects character by       *)
(* character (URLs, method tokens, header names, JSON keys, generated      *)
(* names) is a sequence of one-character strings.  A Python str that the   *)
(* code only copies or formats (header values, body texts, type hints) is  *)
(* a TLA+ string.  A Python dict is a sequence of <<key, value>> pairs     *)
(* with distinct keys, in insertion order.  A URL is a record              *)
(* [origin, rest]: origin is "scheme://netloc" (never inspected by the     *)
(* code beyond urlparse cutting it off) and rest is everything after the   *)
(* netloc.                                                                 *)
(***************************************************************************)
EXTENDS Integers, Sequences, FiniteSets, TLC

VARIABLES
    api_calls,        \* the capture: the calls the reader has exposed so far
    models,           \* ModelGenerator.models: dict url -> model code
    client_code,      \* ClientGenerator.client_code
    model_generator,  \* ClientGenerator.model_generator is attached (not None)
    models_from,      \* history: how many calls the last generate_models_from_responses got
    client_from,      \* history: the arguments of the last generate_client
    arg,              \* argument of the pure function under check
    res               \* its result

vars == <<api_calls, models, client_code, model_generator, models_from, client_from, arg, res>>

\* the state of the two generators and their history
generators == <<api_calls, models, client_code, model_generator, models_from, client_from>>

None == "None"

(***************************************************************************)
(* Characters and str methods.  The characters of the model are those of   *)
(* ASCII and of the Latin-1 supplement (U+0000 to U+00FF), and the three   *)
(* characters that the case mappings of these give beyond them.  A         *)
(* character that a TLA+ string cannot hold is written as its code point:  *)
(* "U+0000" (NUL), "U+0060" (grave accent), "U+0178" (capital Y with       *)
(* diaeresis), "U+039C" and "U+03BC" (Greek mu, capital and small).        *)
(***************************************************************************)
UpperCase == <<"A","B","C","D","E","F","G","H","I","J","K","L","M",
               "N","O","P","Q","R","S","T","U","V","W","X","Y","Z">>
LowerCase == <<"a","b","c","d","e","f","g","h","i","j","k","l","m",
               "n","o","p","q","r","s","t","u","v","w","x","y","z">>
Digits == <<"0","1","2","3","4","5","6","7","8","9">>

\* the cased letters: CasedUpper[i].lower() is CasedLower[i]
CasedUpper == UpperCase \o
    <<"À", "Á", "Â", "Ã", "Ä", "Å", "Æ", "Ç", "È", "É", "Ê", "Ë", "Ì", "Í", "Î", "Ï",
      "Ð", "Ñ", "Ò", "Ó", "Ô", "Õ", "Ö", "Ø", "Ù", "Ú", "Û", "Ü", "Ý", "Þ", "U+0178", "U+039C">>
CasedLower == LowerCase \o
    <<"à", "á", "â", "ã", "ä", "å", "æ", "ç", "è", "é", "ê", "ë", "ì", "í", "î", "ï",
      "ð", "ñ", "ò", "ó", "ô", "õ", "ö", "ø", "ù", "ú", "û", "ü", "ý", "þ", "ÿ", "U+03BC">>

\* the characters c with c.isspace(), which are also those that \s matches in a
\* str pattern
Whitespace ==
    {"\t", "\n", "", "\f", "\r", "", "", "", "", " ", "", " "}

\* the characters beyond ASCII that \w matches in a str pattern
UnicodeLetters ==
    {"ª", "²", "³", "µ", "¹", "º", "¼", "½", "¾", "À", "Á", "Â", "Ã", "Ä", "Å", "Æ",
     "Ç", "È", "É", "Ê", "Ë", "Ì", "Í", "Î", "Ï", "Ð", "Ñ", "Ò", "Ó", "Ô", "Õ", "Ö",
     "Ø", "Ù", "Ú", "Û", "Ü", "Ý", "Þ", "ß", "à", "á", "â", "ã", "ä", "å", "æ", "ç",
     "è", "é", "ê", "ë", "ì", "í", "î", "ï", "ð", "ñ", "ò", "ó", "ô", "õ", "ö", "ø",
     "ù", "ú", "û", "ü", "ý", "þ", "ÿ", "U+0178", "U+039C", "U+03BC"}

\* chr(code) is Chr[code + 1], for the code points up to U+00FF
Chr ==
    <<"U+0000", "", "", "", "", "", "", "", "", "\t", "\n", "", "\f", "\r", "", "",
      "", "", "", "", "", "", "", "", "", "", "", "", "", "", "", "",
      " ", "!", "\"", "#", "$", "%", "&", "'", "(", ")", "*", "+", ",", "-", ".", "/",
      "0", "1", "2", "3", "4", "5", "6", "7", "8", "9", ":", ";", "<", "=", ">", "?",
      "@", "A", "B", "C", "D", "E", "F", "G", "H", "I", "J", "K", "L", "M", "N", "O",
      "P", "Q", "R", "S", "T", "U", "V", "W", "X", "Y", "Z", "[", "\\", "]", "^", "_",
      "U+0060", "a", "b", "c", "d", "e", "f", "g", "h", "i", "j", "k", "l", "m", "n", "o",
      "p", "q", "r", "s", "t", "u", "v", "w", "x", "y", "z", "{", "|", "}", "~", "",
      "", "", "", "", "", "", "", "", "", "", "", "", "", "", "", "",
      "", "", "", "", "", "", "", "", "", "", "", "", "", "", "", "",
      " ", "¡", "¢", "£", "¤", "¥", "¦", "§", "¨", "©", "ª", "«", "¬", "­", "®", "¯",
      "°", "±", "²", "³", "´", "µ", "¶", "·", "¸", "¹", "º", "»", "¼", "½", "¾", "¿",
      "À", "Á", "Â", "Ã", "Ä", "Å", "Æ", "Ç", "È", "É", "Ê", "Ë", "Ì", "Í", "Î", "Ï",
      "Ð", "Ñ", "Ò", "Ó", "Ô", "Õ", "Ö", "×", "Ø", "Ù", "Ú", "Û", "Ü", "Ý", "Þ", "ß",
      "à", "á", "â", "ã", "ä", "å", "æ", "ç", "è", "é", "ê", "ë", "ì", "í", "î", "ï",
      "ð", "ñ", "ò", "ó", "ô", "õ", "ö", "÷", "ø", "ù", "ú", "û", "ü", "ý", "þ", "ÿ">>

Range(s) == {s[i] : i \in DOMAIN s}

IndexIn(c, s) == CHOOSE i \in DOMAIN s : s[i] = c

\* the characters c with c.isdigit(): the decimal digits and the superscript digits
DigitChars == Range(Digits) \cup {"²", "³", "¹"}

\* str.isdigit() of one character
IsDigit(c) == c \in DigitChars

\* the characters of [a-zA-Z0-9_]
AsciiWord == Range(UpperCase) \cup Range(LowerCase) \cup Range(Digits) \cup {"_"}

\* matches [a-zA-Z0-9_]
IsWordChar(c) == c \in AsciiWord

\* the characters that \w matches in a str pattern
UnicodeWord == AsciiWord \cup UnicodeLetters

\* matches \w of a str pattern
IsUnicodeWordChar(c) == c \in UnicodeWord

\* c.lower() for the characters it changes
LowerMap == [c \in Range(CasedUpper) |-> CasedLower[IndexIn(c, CasedUpper)]]

LowerChar(c) == IF c \in DOMAIN LowerMap THEN LowerMap[c] ELSE c

\* the title-cased form of the characters that have one; the sharp s gives two
\* characters
TitleMap ==
    [c \in Range(CasedLower) \cup {"ß", "µ"} |->
        IF c = "ß" THEN <<"S", "s">>
        ELSE IF c = "µ" THEN <<"U+039C">>
        ELSE <<CasedUpper[IndexIn(c, CasedLower)]>>]

\* the title-cased form of a character, which str.capitalize() puts first
UpperChar(c) == IF c \in DOMAIN TitleMap THEN TitleMap[c] ELSE <<c>>

\* str.lower()
Lower(s) == [i \in DOMAIN s |-> LowerChar(s[i])]

\* str.capitalize(): first character title-cased, the rest lower-cased
Capitalize(s) == IF s = <<>> THEN <<>> ELSE UpperChar(s[1]) \o Lower(Tail(s))

\* index of the first occurrence of c in s at or after position from, 0 if none
Find(s, c, from) ==
    IF \E i \in from..Len(s) : s[i] = c
    THEN CHOOSE i \in from..Len(s) : s[i] = c /\ \A j \in from..(i-1) : s[j] # c
    ELSE 0

\* index of the last occurrence of c in s, 0 if none
RFind(s, c) ==
    IF \E i \in DOMAIN s : s[i] = c
    THEN CHOOSE i \in DOMAIN s : s[i] = c /\ \A j \in (i+1)..Len(s) : s[j] # c
    ELSE 0

\* s.split(c)[0]
SplitFirst(s, c) == IF Find(s, c, 1) = 0 THEN s ELSE SubSeq(s, 1, Find(s, c, 1) - 1)

\* s.split(c)[-1]
SplitLast(s, c) == SubSeq(s, RFind(s, c) + 1, Len(s))

\* s.replace(a, b) for single characters
Replace(s, a, b) == [i \in DOMAIN s |-> IF s[i] = a THEN b ELSE s[i]]

RECURSIVE LStrip(_, _)
LStrip(s, c) == IF s # <<>> /\ Head(s) = c THEN LStrip(Tail(s), c) ELSE s

RECURSIVE RStrip(_, _)
RStrip(s, c) ==
    IF s # <<>> /\ s[Len(s)] = c THEN RStrip(SubSeq(s, 1, Len(s) - 1), c) ELSE s

\* s.strip(c)
Strip(s, c) == RStrip(LStrip(s, c), c)

\* str(n) for n >= 0
RECURSIVE IntToStr(_)
IntToStr(n) == IF n < 10 THEN <<Digits[n + 1]>> ELSE IntToStr(n \div 10) \o <<Digits[(n % 10) + 1]>>

\* re.sub(r'[^a-zA-Z0-9_]', '_', s)
SubNonWord(s) == [i \in DOMAIN s |-> IF IsWordChar(s[i]) THEN s[i] ELSE "_"]

\* mutant: runs of underscores are left as they are
SubUnderscoreRuns_Kept(s) == s

\* re.sub(r'_+', '_', s)
RECURSIVE SubUnderscoreRuns(_)
SubUnderscoreRuns(s) ==
    IF Len(s) < 2 THEN s
    ELSE IF s[1] = "_" /\ s[2] = "_" THEN SubUnderscoreRuns(Tail(s))
    ELSE <<s[1]>> \o SubUnderscoreRuns(Tail(s))

(***************************************************************************)
(* urllib.parse.urlparse on an http(s) URL, for the part after the netloc: *)
(* every tab, carriage return and line feed is deleted first, then the     *)
(* fragment is cut at the first '#', the query at the first '?', and       *)
(* (urlparse, not urlsplit) the parameters at the first ';' of the last    *)
(* path segment.                                                           *)
(***************************************************************************)
\* _UNSAFE_URL_BYTES_TO_REMOVE
UnsafeUrlChars == {"\t", "\r", "\n"}

UrlNoFragment(rest) ==
    SplitFirst(SelectSeq(rest, LAMBDA c : c \notin UnsafeUrlChars), "#")

UrlSplitPath(rest) == SplitFirst(UrlNoFragment(rest), "?")

UrlQuery(rest) ==
    LET u == UrlNoFragment(rest)
    IN  IF Find(u, "?", 1) = 0 THEN <<>> ELSE SubSeq(u, Find(u, "?", 1) + 1, Len(u))

\* _splitparams: cut at the first ';' found after the last '/'
UrlPath(rest) ==
    LET p == UrlSplitPath(rest)
        i == Find(p, ";", RFind(p, "/") + 1)
    IN  IF i = 0 THEN p ELSE SubSeq(p, 1, i - 1)

(***************************************************************************)
(* ClientGenerator._generate_method_name                                   *)
(***************************************************************************)
\* the endpoint clean-up of the last path part (client.py lines 121-132)
CleanEndpoint(endpoint) ==
    LET e1 == SplitFirst(endpoint, ".")
        e2 == SplitFirst(e1, "?")
        e3 == Replace(Replace(e2, "-", "_"), " ", "_")
        e4 == SubNonWord(e3)
        e5 == SubUnderscoreRuns(e4)
    IN  Strip(e5, "_")

\* "Ensure valid Python identifier": prefix a name that starts with a digit
EnsureIdentifier(method_name) ==
    IF method_name # <<>> /\ IsDigit(method_name[1])
    THEN <<"c","a","l","l","_">> \o method_name
    ELSE method_name

\* mutant: the fallback name has no index
_generate_method_name_NoIndex(call, index) ==
    LET method == Lower(call.method)
        path == Strip(UrlPath(call.url.rest), "/")
        method_name ==
            IF path # <<>>
            THEN method \o <<"_">> \o CleanEndpoint(SplitLast(path, "/"))
            ELSE method \o <<"_","r","e","q","u","e","s","t">>
    IN  EnsureIdentifier(method_name)

_generate_method_name(call, index) ==
    LET method == Lower(call.method)
        path == Strip(UrlPath(call.url.rest), "/")
        method_name ==
            IF path # <<>>
            THEN method \o <<"_">> \o CleanEndpoint(SplitLast(path, "/"))
            ELSE method \o <<"_","r","e","q","u","e","s","t","_">> \o IntToStr(index)
    IN  EnsureIdentifier(method_name)

(***************************************************************************)
(* JSON values (the result of json.loads) are tagged records:              *)
(*   [t |-> "null"], [t |-> "bool", v |-> TRUE], [t |-> "int", v |-> 1],   *)
(*   [t |-> "float", v |-> "1.5"], [t |-> "str", v |-> "s"],               *)
(*   [t |-> "list", v |-> <<values>>], [t |-> "dict", v |-> <<pairs>>].    *)
(* isinstance follows Python's class hierarchy: bool is a subclass of int. *)
(***************************************************************************)
JNull == [t |-> "null"]
JTrue == [t |-> "bool", v |-> TRUE]
JInt == [t |-> "int", v |-> 1]
JFloat == [t |-> "float", v |-> "1.5"]
JStr == [t |-> "str", v |-> "s"]
JList(items) == [t |-> "list", v |-> items]
JDict(items) == [t |-> "dict", v |-> items]

KeyId == <<"i","d">>

IsNone(value) == value.t = "null"
IsInstanceBool(value) == value.t = "bool"
IsInstanceInt(value) == value.t \in {"int", "bool"}
IsInstanceFloat(value) == value.t = "float"
IsInstanceStr(value) == value.t = "str"
IsInstanceList(value) == value.t = "list"
IsInstanceDict(value) == value.t = "dict"

\* type(data).__name__
TypeName(data) ==
    CASE data.t = "null" -> "NoneType"
      [] data.t = "bool" -> "bool"
      [] data.t = "int" -> "int"
      [] data.t = "float" -> "float"
      [] data.t = "str" -> "str"
      [] data.t = "list" -> "list"
      [] data.t = "dict" -> "dict"

(***************************************************************************)
(* ModelGenerator._infer_type                                              *)
(***************************************************************************)
\* mutant: the integer test comes before the boolean test
RECURSIVE _infer_type_IntFirst(_, _)
_infer_type_IntFirst(value, field_name) ==
    IF IsNone(value) THEN "Optional[Any]"
    ELSE IF IsInstanceInt(value) THEN "int"
    ELSE IF IsInstanceBool(value) THEN "bool"
    ELSE IF IsInstanceFloat(value) THEN "float"
    ELSE IF IsInstanceStr(value) THEN "str"
    ELSE IF IsInstanceList(value) THEN
        IF Len(value.v) = 0 THEN "List[Any]"
        ELSE "List[" \o _infer_type_IntFirst(value.v[1], field_name) \o "]"
    ELSE IF IsInstanceDict(value) THEN "Dict[str, Any]"
    ELSE "Any"

RECURSIVE _infer_type(_, _)
_infer_type(value, field_name) ==
    IF IsNone(value) THEN "Optional[Any]"
    ELSE IF IsInstanceBool(value) THEN "bool"
    ELSE IF IsInstanceInt(value) THEN "int"
    ELSE IF IsInstanceFloat(value) THEN "float"
    ELSE IF IsInstanceStr(value) THEN "str"
    ELSE IF IsInstanceList(value) THEN
        IF Len(value.v) = 0 THEN "List[Any]"
        ELSE "List[" \o _infer_type(value.v[1], field_name) \o "]"
    ELSE IF IsInstanceDict(value) THEN "Dict[str, Any]"
    ELSE "Any"

(***************************************************************************)
(* ModelGenerator._sanitize_field_name                                     *)
(***************************************************************************)
Keywords ==
    {<<"c","l","a","s","s">>, <<"d","e","f">>, <<"r","e","t","u","r","n">>, <<"i","f">>,
     <<"e","l","s","e">>, <<"f","o","r">>, <<"w","h","i","l","e">>,
     <<"i","m","p","o","r","t">>, <<"f","r","o","m">>, <<"a","s">>, <<"i","s">>}

\* mutant: the keyword test compares the name as written
_sanitize_field_name_CaseSensitive(name) ==
    LET replaced == Replace(Replace(Replace(name, "-", "_"), ".", "_"), " ", "_")
        prefixed == IF replaced # <<>> /\ IsDigit(replaced[1])
                    THEN <<"_">> \o replaced ELSE replaced
    IN  IF prefixed \in Keywords THEN prefixed \o <<"_">> ELSE prefixed

_sanitize_field_name(name) ==
    LET replaced == Replace(Replace(Replace(name, "-", "_"), ".", "_"), " ", "_")
        prefixed == IF replaced # <<>> /\ IsDigit(replaced[1])
                    THEN <<"_">> \o replaced ELSE replaced
    IN  IF Lower(prefixed) \in Keywords THEN prefixed \o <<"_">> ELSE prefixed

(***************************************************************************)
(* Model code is the sequence of its lines; a line is a record with its    *)
(* kind and the values formatted into it.                                  *)
(***************************************************************************)
ModelHeader(model_name) ==
    << [kind |-> "import_typing"], [kind |-> "import_dataclass"], [kind |-> "blank"],
       [kind |-> "blank"], [kind |-> "decorator"], [kind |-> "class", name |-> model_name],
       [kind |-> "docstring"] >>

\* mutant: the fields are emitted sorted by type hint, booleans first
FieldLines_BoolFirst(items) ==
    LET IsBool(i) == items[i][2].t = "bool"
        order == SelectSeq([i \in DOMAIN items |-> i], IsBool)
                 \o SelectSeq([i \in DOMAIN items |-> i], LAMBDA i : ~IsBool(i))
    IN  [n \in DOMAIN items |->
            [kind |-> "field", name |-> _sanitize_field_name(items[order[n]][1]),
             type |-> _infer_type(items[order[n]][2], items[order[n]][1])]]

\* the field lines of a dict, one per item in the dict's order
\* mutant: a key whose field name was emitted before is left out
FieldLines_Deduped(items) ==
    LET kept == SelectSeq([i \in DOMAIN items |-> i],
                    LAMBDA i : \A j \in 1..(i - 1) :
                        _sanitize_field_name(items[j][1]) # _sanitize_field_name(items[i][1]))
    IN  [n \in DOMAIN kept |->
            [kind |-> "field", name |-> _sanitize_field_name(items[kept[n]][1]),
             type |-> _infer_type(items[kept[n]][2], items[kept[n]][1])]]

FieldLines(items) ==
    [i \in DOMAIN items |->
        [kind |-> "field", name |-> _sanitize_field_name(items[i][1]),
         type |-> _infer_type(items[i][2], items[i][1])]]

\* mutant: an empty dict gets no body line
_generate_dict_model_NoPass(data, model_name) == ModelHeader(model_name) \o FieldLines(data.v)

_generate_dict_model(data, model_name) ==
    IF data.v = <<>>
    THEN ModelHeader(model_name) \o << [kind |-> "pass"] >>
    ELSE ModelHeader(model_name) \o FieldLines(data.v)

ItemSuffix == <<"I","t","e","m">>

\* mutant: the last element is sampled
Representative_Last(items) == items[Len(items)]

\* the element of a non-empty list that stands for all of them
Representative(items) == items[1]

_generate_list_model(data, model_name) ==
    IF data.v = <<>>
    THEN << [kind |-> "empty_list", name |-> model_name] >>
    ELSE LET first_item == Representative(data.v)
         IN  IF IsInstanceDict(first_item)
             THEN _generate_dict_model(first_item, model_name \o ItemSuffix)
                  \o << [kind |-> "blank"],
                        [kind |-> "list_of_item", name |-> model_name,
                         item |-> model_name \o ItemSuffix] >>
             ELSE << [kind |-> "list_of_type", name |-> model_name,
                      type |-> _infer_type(first_item, <<"i","t","e","m">>)] >>

analyze_json_structure(data, model_name) ==
    IF IsInstanceDict(data) THEN _generate_dict_model(data, model_name)
    ELSE IF IsInstanceList(data) /\ Len(data.v) > 0 THEN _generate_list_model(data, model_name)
    ELSE << [kind |-> "simple_type", type |-> TypeName(data)] >>

(***************************************************************************)
(* ModelGenerator._url_to_model_name                                       *)
(***************************************************************************)
\* s.split(): the words between runs of whitespace
RECURSIVE SplitWords(_)
SplitWords(s) ==
    IF s = <<>> THEN <<>>
    ELSE IF s[1] \in Whitespace THEN SplitWords(Tail(s))
    ELSE LET stops == {i \in DOMAIN s : s[i] \in Whitespace}
             end == IF stops = {} THEN Len(s)
                    ELSE (CHOOSE i \in stops : \A j \in stops : i <= j) - 1
         IN  <<SubSeq(s, 1, end)>> \o SplitWords(SubSeq(s, end + 1, Len(s)))

\* mutant: the words are joined as written
RECURSIVE JoinCapitalized_AsWritten(_)
JoinCapitalized_AsWritten(words) ==
    IF words = <<>> THEN <<>>
    ELSE Head(words) \o JoinCapitalized_AsWritten(Tail(words))

\* ''.join(word.capitalize() for word in words if word)
RECURSIVE JoinCapitalized(_)
JoinCapitalized(words) ==
    IF words = <<>> THEN <<>>
    ELSE Capitalize(Head(words)) \o JoinCapitalized(Tail(words))

ResponseName(index) == <<"R","e","s","p","o","n","s","e">> \o IntToStr(index)

_url_to_model_name(url, index) ==
    LET path == Strip(UrlPath(url.rest), "/")
        name_part == SplitFirst(SplitFirst(SplitLast(path, "/"), "?"), ".")
        words == SplitWords(Replace(Replace(name_part, "_", " "), "-", " "))
        joined == JoinCapitalized(words)
        model_name ==
            IF path # <<>>
            THEN IF joined = <<>> \/ IsDigit(joined[1]) THEN ResponseName(index) ELSE joined
            ELSE ResponseName(index)
    IN  model_name \o <<"M","o","d","e","l">>

(***************************************************************************)
(* Python dicts as sequences of <<key, value>> pairs in insertion order    *)
(***************************************************************************)
DictHas(d, k) == \E i \in DOMAIN d : d[i][1] = k

DictGet(d, k) == d[CHOOSE i \in DOMAIN d : d[i][1] = k][2]

\* d[k] = v: a new key goes last, an old key keeps its place
DictSet(d, k, v) ==
    IF DictHas(d, k)
    THEN [i \in DOMAIN d |-> IF d[i][1] = k THEN <<k, v>> ELSE d[i]]
    ELSE Append(d, <<k, v>>)

DictKeys(d) == [i \in DOMAIN d |-> d[i][1]]

\* rec.get(key, default) on a record that may lack the key
Get(rec, key, default) == IF key \in DOMAIN rec THEN rec[key] ELSE default

\* {} as a record without fields
EmptyRecord == <<>>

(***************************************************************************)
(* json.loads on the body texts of the modelled captures: the value, or    *)
(* JSONDecodeError.                                                        *)
(***************************************************************************)
TextUser == "{\"id\": 1, \"name\": \"s\"}"
TextUsers == "[{\"id\": 1, \"name\": \"s\"}, {\"id\": 1}]"
TextOk == "{\"ok\": true}"
TextHtml == "<html>Not JSON</html>"
TextForm == "a=1&b=2"
TextIds == "[1, 2]"
TextClass == "{\"class\\tx\": 1}"

KeyName == <<"n","a","m","e">>
KeyOk == <<"o","k">>
\* the key of TextClass, whose JSON escape is a tab
KeyClassTab == <<"c","l","a","s","s","\t","x">>

JsonLoads(text) ==
    CASE text = TextUser ->
            [ok |-> TRUE, value |-> JDict(<< <<KeyId, JInt>>, <<KeyName, JStr>> >>)]
      [] text = TextUsers ->
            [ok |-> TRUE,
             value |-> JList(<< JDict(<< <<KeyId, JInt>>, <<KeyName, JStr>> >>),
                                JDict(<< <<KeyId, JInt>> >>) >>)]
      [] text = TextOk -> [ok |-> TRUE, value |-> JDict(<< <<KeyOk, JTrue>> >>)]
      [] text = TextIds -> [ok |-> TRUE, value |-> JList(<<JInt, [t |-> "int", v |-> 2]>>)]
      [] text = TextClass -> [ok |-> TRUE, value |-> JDict(<< <<KeyClassTab, JInt>> >>)]
      [] text \in {TextHtml, TextForm, ""} -> [ok |-> FALSE]

(***************************************************************************)
(* ModelGenerator.generate_models_from_responses                           *)
(***************************************************************************)
\* mutant: a URL that already has a model keeps it (first write wins)
ModelsStep_FirstWins(table, call, idx) ==
    LET text == Get(Get(call.response, "content", EmptyRecord), "text", "")
    IN  IF text # "" /\ JsonLoads(text).ok /\ ~DictHas(table, call.url)
        THEN DictSet(table, call.url,
                     analyze_json_structure(JsonLoads(text).value,
                                            _url_to_model_name(call.url, idx)))
        ELSE table

\* mutant: a body that is not JSON is stored as a placeholder instead of skipped
ModelsStep_StoreUnparsed(table, call, idx) ==
    LET text == Get(Get(call.response, "content", EmptyRecord), "text", "")
    IN  IF text = "" THEN table
        ELSE IF JsonLoads(text).ok
        THEN DictSet(table, call.url,
                     analyze_json_structure(JsonLoads(text).value,
                                            _url_to_model_name(call.url, idx)))
        ELSE DictSet(table, call.url, << [kind |-> "simple_type", type |-> "str"] >>)

\* one pass of the loop body for the call at index idx (0-based)
ModelsStep(table, call, idx) ==
    LET response == call.response
        content == Get(response, "content", EmptyRecord)
        text == Get(content, "text", "")
    IN  IF text # "" /\ JsonLoads(text).ok
        THEN DictSet(table, call.url,
                     analyze_json_structure(JsonLoads(text).value,
                                            _url_to_model_name(call.url, idx)))
        ELSE table

RECURSIVE ModelsLoop(_, _, _)
ModelsLoop(table, calls, idx) ==
    IF idx >= Len(calls) THEN table
    ELSE ModelsLoop(ModelsStep(table, calls[idx + 1], idx), calls, idx + 1)

generate_models_from_responses(calls) == ModelsLoop(<<>>, calls, 0)

\* "content": null in a response: response.get('content', {}) is None
NullContent == [null |-> TRUE]

\* the exception that leaves the loop, "" when none does: content.get on None is
\* an AttributeError, which the except clause (JSONDecodeError, KeyError) lets pass
ModelsRaised(calls) ==
    IF \E i \in DOMAIN calls : Get(calls[i].response, "content", EmptyRecord) = NullContent
    THEN "AttributeError" ELSE ""

(***************************************************************************)
(* urllib.parse.parse_qs (keep_blank_values=False) and the flattening of   *)
(* single-valued parameters                                                *)
(***************************************************************************)
\* s.split(c): all the parts, empty ones included
RECURSIVE SplitAll(_, _)
SplitAll(s, c) ==
    IF Find(s, c, 1) = 0 THEN <<s>>
    ELSE <<SubSeq(s, 1, Find(s, c, 1) - 1)>> \o SplitAll(SubSeq(s, Find(s, c, 1) + 1, Len(s)), c)

\* the value of a hexadecimal digit, -1 for another character
HexVal(c) ==
    IF c \in Range(Digits) THEN IndexIn(c, Digits) - 1
    ELSE IF c \in {"a", "b", "c", "d", "e", "f"} THEN IndexIn(c, LowerCase) + 9
    ELSE IF c \in {"A", "B", "C", "D", "E", "F"} THEN IndexIn(c, UpperCase) + 9
    ELSE -1

\* unquote_to_bytes: a '%' followed by two hexadecimal digits gives the byte
\* [b |-> value], every other character stays as [c |-> character]
RECURSIVE UnquoteToBytes(_)
UnquoteToBytes(s) ==
    IF s = <<>> THEN <<>>
    ELSE IF s[1] = "%" /\ Len(s) >= 3 /\ HexVal(s[2]) >= 0 /\ HexVal(s[3]) >= 0
    THEN <<[b |-> 16 * HexVal(s[2]) + HexVal(s[3])]>> \o UnquoteToBytes(SubSeq(s, 4, Len(s)))
    ELSE <<[c |-> s[1]]>> \o UnquoteToBytes(Tail(s))

RECURSIVE HexDigitsOf(_)
HexDigitsOf(n) ==
    LET digit == IF n % 16 < 10 THEN Digits[(n % 16) + 1] ELSE UpperCase[(n % 16) - 9]
    IN  IF n < 16 THEN digit ELSE HexDigitsOf(n \div 16) \o digit

\* chr(code): a character beyond U+00FF is written as its code point
CharOf(code) ==
    IF code < 256 THEN Chr[code + 1]
    ELSE IF code < 4096 THEN "U+0" \o HexDigitsOf(code)
    ELSE "U+" \o HexDigitsOf(code)

\* the continuation bytes that may follow the lead byte b of a UTF-8 sequence:
\* a sequence of ranges <<low, high>>, empty when b cannot lead a sequence
Utf8Trail(b) ==
    LET any == <<128, 191>>
    IN  IF b \in 194..223 THEN <<any>>
        ELSE IF b = 224 THEN << <<160, 191>>, any >>
        ELSE IF b \in (225..236) \cup {238, 239} THEN <<any, any>>
        ELSE IF b = 237 THEN << <<128, 159>>, any >>
        ELSE IF b = 240 THEN << <<144, 191>>, any, any >>
        ELSE IF b \in 241..243 THEN <<any, any, any>>
        ELSE IF b = 244 THEN << <<128, 143>>, any, any >>
        ELSE <<>>

\* bytes.decode('utf-8', 'replace') over the bytes of the escapes; a character
\* that was not escaped ends the sequence before it.  An ill-formed sequence
\* gives one U+FFFD for its longest well-formed start.
RECURSIVE DecodeUtf8(_)
DecodeUtf8(items) ==
    IF items = <<>> THEN <<>>
    ELSE IF "c" \in DOMAIN items[1] THEN <<items[1].c>> \o DecodeUtf8(Tail(items))
    ELSE IF items[1].b < 128 THEN <<CharOf(items[1].b)>> \o DecodeUtf8(Tail(items))
    ELSE LET lead == items[1].b
             trail == Utf8Trail(lead)
             Fits(k) == /\ k + 1 <= Len(items)
                        /\ "b" \in DOMAIN items[k + 1]
                        /\ items[k + 1].b >= trail[k][1]
                        /\ items[k + 1].b <= trail[k][2]
             good == {k \in 0..Len(trail) : \A j \in 1..k : Fits(j)}
             n == CHOOSE k \in good : \A j \in good : j <= k
             first == IF Len(trail) = 1 THEN lead - 192
                      ELSE IF Len(trail) = 2 THEN lead - 224 ELSE lead - 240
             RECURSIVE Code(_, _)
             Code(acc, k) == IF k > Len(trail) THEN acc
                             ELSE Code(acc * 64 + (items[k + 1].b - 128), k + 1)
         IN  IF trail # <<>> /\ n = Len(trail)
             THEN <<CharOf(Code(first, 1))>> \o DecodeUtf8(SubSeq(items, n + 2, Len(items)))
             ELSE <<"U+FFFD">> \o DecodeUtf8(SubSeq(items, n + 2, Len(items)))

\* unquote(s.replace('+', ' '))
Unquote(s) == DecodeUtf8(UnquoteToBytes(Replace(s, "+", " ")))

\* parse_qsl: the (name, value) pairs with a non-empty value, in order
RECURSIVE QueryPairs(_)
QueryPairs(fields) ==
    IF fields = <<>> THEN <<>>
    ELSE LET nv == Head(fields)
             eq == Find(nv, "=", 1)
         IN  IF nv # <<>> /\ eq # 0 /\ eq < Len(nv)
             THEN << <<Unquote(SubSeq(nv, 1, eq - 1)), Unquote(SubSeq(nv, eq + 1, Len(nv)))>> >>
                  \o QueryPairs(Tail(fields))
             ELSE QueryPairs(Tail(fields))

RECURSIVE GroupPairs(_, _)
GroupPairs(d, pairs) ==
    IF pairs = <<>> THEN d
    ELSE LET name == Head(pairs)[1]
             old == IF DictHas(d, name) THEN DictGet(d, name) ELSE <<>>
         IN  GroupPairs(DictSet(d, name, Append(old, Head(pairs)[2])), Tail(pairs))

parse_qs(query) == IF query = <<>> THEN <<>> ELSE GroupPairs(<<>>, QueryPairs(SplitAll(query, "&")))

\* mutant: every parameter keeps its first value only
FlattenParams_FirstValue(d) ==
    [i \in DOMAIN d |-> <<d[i][1], [scalar |-> TRUE, value |-> d[i][2][1]]>>]

\* {k: v[0] if len(v) == 1 else v}
FlattenParams(d) ==
    [i \in DOMAIN d |->
        IF Len(d[i][2]) = 1
        THEN <<d[i][1], [scalar |-> TRUE, value |-> d[i][2][1]]>>
        ELSE <<d[i][1], [scalar |-> FALSE, value |-> d[i][2]]>>]

(***************************************************************************)
(* ClientGenerator._generate_method: the lines of one method, as a record  *)
(* of what is formatted into them                                          *)
(***************************************************************************)
ExcludedHeaders ==
    {<<"h","o","s","t">>,
     <<"c","o","n","t","e","n","t","-","l","e","n","g","t","h">>,
     <<"c","o","n","n","e","c","t","i","o","n">>}

\* mutant: the name is compared as written, not lower-cased
IsExcluded_CaseSensitive(name) == name \in ExcludedHeaders

\* the header is set automatically and is skipped
IsExcluded(name) == Lower(name) \in ExcludedHeaders

\* mutant: a later value replaces the one already kept
RECURSIVE MergeHeaders_LastWins(_, _)
MergeHeaders_LastWins(combined, headers) ==
    IF headers = <<>> THEN combined
    ELSE MergeHeaders_LastWins(
             IF ~IsExcluded(Head(headers).name)
             THEN DictSet(combined, Head(headers).name, Head(headers).value)
             ELSE combined,
             Tail(headers))

\* the inner loop over the headers of one call
RECURSIVE MergeHeaders(_, _)
MergeHeaders(combined, headers) ==
    IF headers = <<>> THEN combined
    ELSE LET name == Head(headers).name
             value == Head(headers).value
         IN  MergeHeaders(
                 IF ~IsExcluded(name) /\ ~DictHas(combined, name)
                 THEN DictSet(combined, name, value)
                 ELSE combined,
                 Tail(headers))

\* mutant: only the first call of the group gives headers
CombineHeaders_FirstOnly(combined, all_calls) ==
    IF all_calls = <<>> THEN combined
    ELSE MergeHeaders(combined, Get(Head(all_calls).request, "headers", <<>>))

\* the outer loop over the calls of the group
RECURSIVE CombineHeaders(_, _)
CombineHeaders(combined, all_calls) ==
    IF all_calls = <<>> THEN combined
    ELSE CombineHeaders(MergeHeaders(combined, Get(Head(all_calls).request, "headers", <<>>)),
                        Tail(all_calls))

\* the request body lines: a JSON merge point, an opaque payload, or none
BodyLines(request) ==
    LET post_data == Get(request, "postData", EmptyRecord)
        body_text == Get(post_data, "text", "")
    IN  IF body_text # ""
        THEN IF JsonLoads(body_text).ok
             THEN [kind |-> "json", json_data |-> JsonLoads(body_text).value]
             ELSE [kind |-> "data", data |-> body_text]
        ELSE [kind |-> "none"]

\* mutant: the body is taken from the last call of the group
_generate_method_LastBody(call, method_name, all_calls, model_name) ==
    [name |-> method_name,
     return_type |-> model_name,
     method |-> call.request.method,
     path |-> UrlPath(call.url.rest),
     url |-> call.url,
     headers |-> CombineHeaders(<<>>, all_calls),
     params |-> FlattenParams(parse_qs(UrlQuery(call.url.rest))),
     body |-> BodyLines(all_calls[Len(all_calls)].request)]

_generate_method(call, method_name, all_calls, model_name) ==
    [name |-> method_name,
     return_type |-> model_name,
     method |-> call.request.method,
     path |-> UrlPath(call.url.rest),
     url |-> call.url,
     headers |-> CombineHeaders(<<>>, all_calls),
     params |-> FlattenParams(parse_qs(UrlQuery(call.url.rest))),
     body |-> BodyLines(call.request)]

(***************************************************************************)
(* ClientGenerator._get_model_name_for_call: the first match of            *)
(* class\s+(\w+): in the model code of the call's URL.                     *)
(***************************************************************************)
\* the text of a line of model code, as characters; a stretch of fixed text or a
\* type hint, in which the pattern can neither start nor go on, is one element
LineText(line) ==
    CASE line.kind = "class" -> <<"c","l","a","s","s"," ">> \o line.name \o <<":">>
      [] line.kind = "field" -> <<" "," "," "," ">> \o line.name \o <<":", " ", line.type>>
      [] line.kind = "list_of_item" ->
            <<"#", " ">> \o line.name \o <<" ", "=", " ", "List[">> \o line.item \o <<"]">>
      [] line.kind = "list_of_type" ->
            <<"#", " ">> \o line.name \o <<" ", "=", " ", "List[", line.type, "]">>
      [] line.kind = "empty_list" -> <<"#", " ">> \o line.name \o <<" ", "is an empty list">>
      [] line.kind = "simple_type" -> <<"# Simple type: ", line.type>>
      [] line.kind = "blank" -> <<>>
      [] OTHER -> <<line.kind>>

\* '\n'.join(lines)
RECURSIVE ModelText(_)
ModelText(model_code) ==
    IF model_code = <<>> THEN <<>>
    ELSE IF Len(model_code) = 1 THEN LineText(model_code[1])
    ELSE LineText(model_code[1]) \o <<"\n">> \o ModelText(Tail(model_code))

\* the end of the longest run of whitespace that starts at position from of text
\* (from - 1 when there is none)
RECURSIVE SpaceRunEnd(_, _)
SpaceRunEnd(text, from) ==
    IF from <= Len(text) /\ text[from] \in Whitespace THEN SpaceRunEnd(text, from + 1)
    ELSE from - 1

\* the same for a run of word characters
RECURSIVE WordRunEnd(_, _)
WordRunEnd(text, from) ==
    IF from <= Len(text) /\ IsUnicodeWordChar(text[from]) THEN WordRunEnd(text, from + 1)
    ELSE from - 1

\* re.search(r'class\s+(\w+):', text): <<>> without a match, else <<group(1)>> of
\* the leftmost match
ClassSearch(text) ==
    LET Matches(p) ==
            /\ text[p] = "c"
            /\ p + 4 <= Len(text)
            /\ SubSeq(text, p, p + 4) = <<"c","l","a","s","s">>
            /\ LET space_end == SpaceRunEnd(text, p + 5)
                   word_end == WordRunEnd(text, space_end + 1)
               IN  /\ space_end >= p + 5
                   /\ word_end > space_end
                   /\ word_end < Len(text)
                   /\ text[word_end + 1] = ":"
        starts == {p \in DOMAIN text : Matches(p)}
    IN  IF starts = {} THEN <<>>
        ELSE LET p == CHOOSE q \in starts : \A r \in starts : q <= r
                 space_end == SpaceRunEnd(text, p + 5)
             IN  <<SubSeq(text, space_end + 1, WordRunEnd(text, space_end + 1))>>

ClassMatch(model_code) == ClassSearch(ModelText(model_code))

\* mutant: the first model of the table is used, whatever its URL
_get_model_name_for_call_AnyUrl(call, generator_models) ==
    IF generator_models # <<>> THEN ClassMatch(generator_models[1][2]) ELSE <<>>

\* <<>> is None, <<name>> is the name
_get_model_name_for_call(call, generator_models) ==
    IF DictHas(generator_models, call.url)
    THEN ClassMatch(DictGet(generator_models, call.url))
    ELSE <<>>

(***************************************************************************)
(* ClientGenerator.generate_client                                         *)
(***************************************************************************)
\* mutant: every call gets an entry of its own, grouped or not
GroupCalls_PerCall(endpoint_calls, calls, idx) ==
    [i \in DOMAIN calls |-> <<_generate_method_name(calls[i], i - 1), <<calls[i]>> >>]

\* the grouping loop: endpoint_calls maps a method name to its calls
RECURSIVE GroupCalls(_, _, _)
GroupCalls(endpoint_calls, calls, idx) ==
    IF idx >= Len(calls) THEN endpoint_calls
    ELSE LET call == calls[idx + 1]
             method_name == _generate_method_name(call, idx)
             group == IF DictHas(endpoint_calls, method_name)
                      THEN DictGet(endpoint_calls, method_name) ELSE <<>>
         IN  GroupCalls(DictSet(endpoint_calls, method_name, Append(group, call)),
                        calls, idx + 1)

\* the generation loop: one method per endpoint
MethodsOf(endpoint_calls, with_models, generator_models) ==
    [i \in DOMAIN endpoint_calls |->
        LET method_name == endpoint_calls[i][1]
            calls == endpoint_calls[i][2]
            model_name == IF with_models
                          THEN _get_model_name_for_call(calls[1], generator_models)
                          ELSE <<>>
        IN  _generate_method(calls[1], method_name, calls, model_name)]

\* use_models and self.model_generator
generate_client(calls, use_models, has_model_generator, generator_models) ==
    [generated |-> TRUE,
     imports_models |-> use_models /\ has_model_generator,
     methods |-> MethodsOf(GroupCalls(<<>>, calls, 0),
                           use_models /\ has_model_generator, generator_models)]

(***************************************************************************)
(* Bounded inputs                                                          *)
(***************************************************************************)
Origin == "https://api.example.com"

\* characters of the part of a URL after the netloc
UrlChars == {"B", "_", "-", ".", "@", " ", "\t", "/", "?", "#", ";"}

\* longest URL tail after the leading '/'
MaxTail == 4

\* the URL tails of length k
UrlTails(k) == [1..k -> UrlChars]

\* method tokens: a usual one, one starting with a digit, one with a hyphen, one
\* starting with a superscript digit and holding a letter beyond ASCII
MethodTokens == {<<"G","E","T">>, <<"1","A">>, <<"M","-","S">>, <<"²","É">>}

BatchIndexes == {0, 3}

NameArg(rest, method, index) ==
    [fn |-> "method_name",
     call |-> [url |-> [origin |-> Origin, rest |-> rest], method |-> method],
     index |-> index]

\* client_code = "": nothing generated yet
NoClient == [generated |-> FALSE, imports_models |-> FALSE, methods |-> <<>>]

\* the generators after construction
InitGenerators ==
    /\ api_calls = <<>>
    /\ models = <<>>
    /\ client_code = NoClient
    /\ models_from = 0
    /\ client_from = <<>>

(***************************************************************************)
(* Specification of the endpoint naming function                           *)
(***************************************************************************)
InitName ==
    /\ InitGenerators
    /\ model_generator = FALSE
    /\ \E method \in MethodTokens, index \in BatchIndexes :
           \/ arg = NameArg(<<>>, method, index)
           \/ \E k \in 0..MaxTail : \E t \in UrlTails(k) :
                  arg = NameArg(<<"/">> \o t, method, index)
    /\ res = <<>>

ApplyMethodName ==
    /\ arg.fn = "method_name"
    /\ res = <<>>
    /\ res' = <<_generate_method_name(arg.call, arg.index)>>
    /\ UNCHANGED <<generators, arg>>

NextName == ApplyMethodName

SpecName == InitName /\ [][NextName]_vars

(***************************************************************************)
(* Specification of the model naming function                              *)
(***************************************************************************)
\* characters of the part of a URL after the netloc, for model names
ModelUrlChars == {"a", "B", "1", "_", "-", ".", "@", " ", "/", "?", "\t", "\f", "É", "ß", "²"}

\* longest URL tail after the leading '/'
MaxPath == 4

ModelNameArg(rest, index) ==
    [fn |-> "model_name", url |-> [origin |-> Origin, rest |-> rest], index |-> index]

InitModelName ==
    /\ InitGenerators
    /\ model_generator = FALSE
    /\ \E index \in BatchIndexes :
           \/ arg = ModelNameArg(<<>>, index)
           \/ \E k \in 0..MaxPath : \E t \in [1..k -> ModelUrlChars] :
                  arg = ModelNameArg(<<"/">> \o t, index)
    /\ res = <<>>

ApplyModelName ==
    /\ arg.fn = "model_name"
    /\ res = <<>>
    /\ res' = <<_url_to_model_name(arg.url, arg.index)>>
    /\ UNCHANGED <<generators, arg>>

NextModelName == ApplyModelName

SpecModelName == InitModelName /\ [][NextModelName]_vars

(***************************************************************************)
(* Bounded JSON values                                                     *)
(***************************************************************************)
JsonAtoms == {JNull, JTrue, JInt, JFloat, JStr}

JsonLeaves == JsonAtoms \cup {JList(<<>>), JDict(<<>>), JDict(<< <<KeyId, JInt>> >>)}

\* longest JSON array
MaxList == 2

\* most keys of a JSON object
MaxKeys == 2

\* an array of k leaves
FlatLists(k) == {JList(items) : items \in [1..k -> JsonLeaves]}

\* n further elements of one kind after the first
Repeat(x, n) == [i \in 1..n |-> x]

JsonKeys == {KeyId, <<"a","-","b">>, <<"a","_","b">>, <<"I","f">>}

FieldValues == {JNull, JTrue, JInt, JList(<<JTrue, JInt>>), JDict(<< <<KeyId, JInt>> >>)}

KeysOf(items) == [i \in DOMAIN items |-> items[i][1]]

DistinctKeys(items) == \A i, j \in DOMAIN items : items[i][1] = items[j][1] => i = j

\* the objects of k keys: items with distinct keys, in every order
Objects(k) ==
    {JDict(d) : d \in {e \in [1..k -> JsonKeys \X FieldValues] : DistinctKeys(e)}}

ModelNames == {<<"U">>, <<"R","3">>}

InferArg(value) == [fn |-> "infer", data |-> value, name |-> KeyId]

AnalyzeArg(data, model_name) == [fn |-> "analyze", data |-> data, name |-> model_name]

\* values for _infer_type: leaves, arrays of leaves, arrays starting with an array
InferArgs(a) ==
    \/ \E v \in JsonLeaves : a = InferArg(v)
    \/ \E k \in 0..MaxList : \E l \in FlatLists(k) :
           \/ a = InferArg(l)
           \/ \E n \in 0..(MaxList - 1) : a = InferArg(JList(<<l>> \o Repeat(JInt, n)))

\* values for analyze_json_structure: leaves, arrays of leaves, objects, and arrays
\* that start with an object and go on with other elements
AnalyzeArgs(a) ==
    \E model_name \in ModelNames :
        \/ \E v \in JsonLeaves : a = AnalyzeArg(v, model_name)
        \/ \E k \in 0..MaxList : \E l \in FlatLists(k) : a = AnalyzeArg(l, model_name)
        \/ \E k \in 0..MaxKeys : \E o \in Objects(k) :
               \/ a = AnalyzeArg(o, model_name)
               \/ \E n \in 0..(MaxList - 1) : \E x \in {JInt, JDict(<<>>)} :
                      a = AnalyzeArg(JList(<<o>> \o Repeat(x, n)), model_name)

\* characters of a field key
KeyChars == {"i", "F", "s", "1", "-", ".", " ", "@", "²"}

\* longest field key
MaxKey == 3

SanitizeArg(name) == [fn |-> "sanitize", data |-> JNull, name |-> name]

SanitizeArgs(a) == \E k \in 0..MaxKey : \E name \in [1..k -> KeyChars] : a = SanitizeArg(name)

(***************************************************************************)
(* Specification of type inference and model synthesis on one JSON value   *)
(***************************************************************************)
InitJson ==
    /\ InitGenerators
    /\ model_generator = FALSE
    /\ InferArgs(arg) \/ AnalyzeArgs(arg) \/ SanitizeArgs(arg)
    /\ res = <<>>

ApplyInferType ==
    /\ arg.fn = "infer"
    /\ res = <<>>
    /\ res' = <<_infer_type(arg.data, arg.name)>>
    /\ UNCHANGED <<generators, arg>>

ApplyAnalyze ==
    /\ arg.fn = "analyze"
    /\ res = <<>>
    /\ res' = <<analyze_json_structure(arg.data, arg.name)>>
    /\ UNCHANGED <<generators, arg>>

ApplySanitize ==
    /\ arg.fn = "sanitize"
    /\ res = <<>>
    /\ res' = <<_sanitize_field_name(arg.name)>>
    /\ UNCHANGED <<generators, arg>>

NextJson == ApplyInferType \/ ApplyAnalyze \/ ApplySanitize

SpecJson == InitJson /\ [][NextJson]_vars

(***************************************************************************)
(* The captured calls of the modelled sessions                             *)
(***************************************************************************)
HAccept == <<"A","c","c","e","p","t">>
HAcceptLower == <<"a","c","c","e","p","t">>
HHost == <<"H","o","s","t">>
HHostUpper == <<"H","O","S","T">>
HContentLength == <<"C","o","n","t","e","n","t","-","L","e","n","g","t","h">>
HConnectionLower == <<"c","o","n","n","e","c","t","i","o","n">>
HXA == <<"X","-","A">>
HXB == <<"X","-","B">>

Get_ == <<"G","E","T">>
Post_ == <<"P","O","S","T">>

Url(rest) == [origin |-> Origin, rest |-> rest]

\* another host
OriginB == "https://b.example.com"

UrlUsers == Url(<<"/","u","s">>)
UrlV2Users == [origin |-> OriginB, rest |-> <<"/","v","2","/","u","s","?","p","=","1","&","p","=","2","&","q","=","1">>]
UrlPage == Url(<<"/","p","g">>)
UrlRoot == Url(<<"/">>)
UrlPing == Url(<<"/","p","i">>)

\* HarReader.get_api_calls: url and method are copied from the request
ApiCall(request, response) ==
    [url |-> request.url, method |-> request.method, request |-> request, response |-> response]

\* GET /us with a JSON array response
CallList ==
    ApiCall([method |-> Get_, url |-> UrlUsers,
             headers |-> << [name |-> HAccept, value |-> "v1"],
                            [name |-> HHost, value |-> "v1"],
                            [name |-> HXA, value |-> "v1"] >>],
            [status |-> 200, content |-> [text |-> TextUsers]])

\* GET /us again, with other header values and a response that is not JSON
CallHtml ==
    ApiCall([method |-> Get_, url |-> UrlUsers,
             headers |-> << [name |-> HAccept, value |-> "v2"],
                            [name |-> HAcceptLower, value |-> "v2"],
                            [name |-> HContentLength, value |-> "v1"],
                            [name |-> HXB, value |-> "v2"] >>],
            [status |-> 200, content |-> [text |-> TextHtml]])

\* POST /us with a JSON body and a JSON object response
CallCreate ==
    ApiCall([method |-> Post_, url |-> UrlUsers,
             headers |-> << [name |-> HConnectionLower, value |-> "v1"],
                            [name |-> HAccept, value |-> "v1"] >>,
             postData |-> [text |-> TextUser]],
            [status |-> 201, content |-> [text |-> TextUser]])

\* GET /v2/us?p=1&p=2&q=1 on another host: another URL with the same last segment
CallV2 ==
    ApiCall([method |-> Get_, url |-> UrlV2Users,
             headers |-> << [name |-> HHostUpper, value |-> "v2"],
                            [name |-> HXA, value |-> "v2"] >>],
            [status |-> 200, content |-> [text |-> TextOk]])

\* POST /pg with a form body, no headers entry and a response that is not JSON
CallForm ==
    ApiCall([method |-> Post_, url |-> UrlPage, postData |-> [text |-> TextForm]],
            [status |-> 200, content |-> [text |-> TextHtml]])

\* GET / with a response that is a JSON array of numbers
CallRoot ==
    ApiCall([method |-> Get_, url |-> UrlRoot, headers |-> <<>>],
            [status |-> 200, content |-> [text |-> TextIds]])

\* GET /pi with a response without content
CallPing ==
    ApiCall([method |-> Get_, url |-> UrlPing, headers |-> <<>>], [status |-> 204])

CapturedCalls == {CallList, CallHtml, CallCreate, CallV2, CallForm, CallRoot, CallPing}

\* longest capture
MaxCalls == 3

(***************************************************************************)
(* Specification of the generators: the reader loads a capture, and the    *)
(* generators run on its calls, in any order and any number of times.  The *)
(* history keeps the number of calls a run got: its calls are the first    *)
(* that many of api_calls.                                                 *)
(***************************************************************************)
Init ==
    /\ InitGenerators
    /\ model_generator \in BOOLEAN
    /\ arg = <<>>
    /\ res = <<>>

\* one more call of the capture is read; the reader loads the capture before
\* the generators run on it
Capture(call) ==
    /\ Len(api_calls) < MaxCalls
    /\ models_from = 0
    /\ client_from = <<>>
    /\ api_calls' = Append(api_calls, call)
    /\ UNCHANGED <<models, client_code, model_generator, models_from, client_from, arg, res>>

\* ModelGenerator.generate_models_from_responses(api_calls)
GenerateModels ==
    /\ models' = IF ModelsRaised(api_calls) = "" THEN generate_models_from_responses(api_calls)
                  ELSE models
    /\ models_from' = IF ModelsRaised(api_calls) = "" THEN Len(api_calls) ELSE models_from
    /\ UNCHANGED <<api_calls, client_code, model_generator, client_from, arg, res>>

\* ClientGenerator.generate_client(api_calls, use_models)
GenerateClient(use_models) ==
    /\ client_code' = generate_client(api_calls, use_models, model_generator, models)
    /\ client_from' = <<[calls |-> Len(api_calls), use_models |-> use_models,
                          models_from |-> models_from]>>
    /\ UNCHANGED <<api_calls, models, model_generator, models_from, arg, res>>

Next ==
    \/ \E call \in CapturedCalls : Capture(call)
    \/ GenerateModels
    \/ \E use_models \in BOOLEAN : GenerateClient(use_models)

Spec == Init /\ [][Next]_vars

(***************************************************************************)
(* Specification of _generate_method on one endpoint group, and of a call  *)
(* of the method it emits                                                  *)
(***************************************************************************)
HXC == <<"X","-","C">>

\* POST /us with a body that is a JSON array
CallBulk ==
    ApiCall([method |-> Post_, url |-> UrlUsers, headers |-> <<>>,
             postData |-> [text |-> TextIds]],
            [status |-> 204])

\* POST /us without a body
CallEmptyPost ==
    ApiCall([method |-> Post_, url |-> UrlUsers,
             headers |-> << [name |-> HXB, value |-> "v3"] >>],
            [status |-> 204])

\* GET /us?q=&p=3&r: a parameter with a blank value and one without '='
UrlSearch == Url(<<"/","u","s","?","q","=","&","p","=","3","&","r">>)

CallSearch ==
    ApiCall([method |-> Get_, url |-> UrlSearch, headers |-> <<>>], [status |-> 200])

\* GET /u<tab>s?a%62=1&ab=2&c=%26+d: a tab in the path, and percent escapes and a
\* plus sign in the query
UrlEscaped ==
    Url(<<"/","u","\t","s","?","a","%","6","2","=","1","&","a","b","=","2","&",
          "c","=","%","2","6","+","d">>)

CallEscaped ==
    ApiCall([method |-> Get_, url |-> UrlEscaped, headers |-> <<>>], [status |-> 200])

MethodCalls == CapturedCalls \cup {CallBulk, CallEmptyPost, CallSearch, CallEscaped}

\* most calls of one endpoint group
MaxGroup == 3

\* the calls are a group of the grouping loop: they derive one name
SameEndpoint(calls) ==
    \A i \in DOMAIN calls :
        _generate_method_name(calls[i], i - 1) = _generate_method_name(calls[1], 0)

MethodArg(calls) == [fn |-> "method", calls |-> calls]

\* the keyword arguments of a call of an emitted method; <<>> is a key not given
NoKwargs == [headers |-> <<>>, params |-> <<>>, json |-> <<>>, data |-> <<>>]

ScalarParam(value) == [scalar |-> TRUE, value |-> value]

Kwargs ==
    {NoKwargs,
     [NoKwargs EXCEPT !.headers = << << <<HAccept, "v9">>, <<HXC, "v9">> >> >>],
     [NoKwargs EXCEPT !.params = << << <<<<"p">>, ScalarParam(<<"9">>)>>,
                                       <<<<"z">>, ScalarParam(<<"9">>)>> >> >>],
     [NoKwargs EXCEPT !.json = << << <<KeyId, JStr>>, <<KeyOk, JTrue>> >> >>],
     [NoKwargs EXCEPT !.data = <<"z=9">>]}

\* kwargs.get(key, default)
KwGet(given, default) == IF given = <<>> THEN default ELSE given[1]

\* dict.update: the keys of other are set in d, a key already there keeps its place
RECURSIVE Update(_, _)
Update(d, other) ==
    IF other = <<>> THEN d
    ELSE Update(DictSet(d, Head(other)[1], Head(other)[2]), Tail(other))

\* what the emitted method hands to session.request, or the error it raises
Sent(headers, params, body) ==
    [raised |-> "", headers |-> headers, params |-> params, body |-> body]

Raised(error) == [raised |-> error, headers |-> <<>>, params |-> <<>>, body |-> [kind |-> "none"]]

\* a call of the emitted method with the keyword arguments kwargs
CallMethod(method, kwargs) ==
    LET headers == IF method.headers # <<>>
                   THEN Update(method.headers, KwGet(kwargs.headers, <<>>))
                   ELSE KwGet(kwargs.headers, <<>>)
        params == IF method.params # <<>>
                  THEN Update(method.params, KwGet(kwargs.params, <<>>))
                  ELSE KwGet(kwargs.params, <<>>)
    IN  CASE method.body.kind = "json" ->
                 IF IsInstanceDict(method.body.json_data)
                 THEN Sent(headers, params,
                           [kind |-> "json",
                            json |-> Update(method.body.json_data.v, KwGet(kwargs.json, <<>>))])
                 ELSE Raised("AttributeError")
          [] method.body.kind = "data" ->
                 Sent(headers, params,
                      [kind |-> "data", data |-> KwGet(kwargs.data, method.body.data)])
          [] method.body.kind = "none" ->
                 Sent(headers, params, [kind |-> "none"])

InitMethod ==
    /\ InitGenerators
    /\ model_generator = FALSE
    /\ \E k \in 1..MaxGroup : \E calls \in [1..k -> MethodCalls] :
           SameEndpoint(calls) /\ arg = MethodArg(calls)
    /\ res = <<>>

ApplyGenerateMethod ==
    /\ arg.fn = "method"
    /\ res = <<>>
    /\ res' = << [method |-> _generate_method(arg.calls[1],
                                              _generate_method_name(arg.calls[1], 0),
                                              arg.calls, <<>>),
                  called |-> FALSE, kwargs |-> NoKwargs, outcome |-> Raised("")] >>
    /\ UNCHANGED <<generators, arg>>

ApplyCallMethod(kwargs) ==
    /\ arg.fn = "method"
    /\ res # <<>>
    /\ ~res[1].called
    /\ res' = << [res[1] EXCEPT !.called = TRUE, !.kwargs = kwargs,
                                !.outcome = CallMethod(res[1].method, kwargs)] >>
    /\ UNCHANGED <<generators, arg>>

NextMethod == ApplyGenerateMethod \/ \E kwargs \in Kwargs : ApplyCallMethod(kwargs)

SpecMethod == InitMethod /\ [][NextMethod]_vars

(***************************************************************************)
(* ClientGenerator with and without a reader: generate_client called with  *)
(* no call list (None) or an explicit one, and generate_from_har_reader.   *)
(* api_calls is what the attached reader's get_api_calls() returns.        *)
(***************************************************************************)
ConfigCalls == {CallList, CallForm}
MaxCapture == 2

ValueError == "ValueError"

\* the outcome of a call: the exception raised, "" when none, and the text
\* returned, <<>> when none
Returns(code) == [raised |-> "", returned |-> <<code>>]
Raises(error) == [raised |-> error, returned |-> <<>>]

\* mutant: an empty call list is taken for a missing one
GenerateClientOrRaise_Falsy(api_calls_arg, har_reader, reader_calls, use_models) ==
    IF api_calls_arg = <<>> \/ api_calls_arg = << <<>> >>
    THEN IF ~har_reader THEN Raises(ValueError)
         ELSE Returns(generate_client(reader_calls, use_models, FALSE, <<>>))
    ELSE Returns(generate_client(api_calls_arg[1], use_models, FALSE, <<>>))

\* generate_client(api_calls, use_models) on a generator without model generator:
\* api_calls_arg is <<>> for None and <<list>> for a list
GenerateClientOrRaise(api_calls_arg, har_reader, reader_calls, use_models) ==
    IF api_calls_arg = <<>>
    THEN IF ~har_reader THEN Raises(ValueError)
         ELSE Returns(generate_client(reader_calls, use_models, FALSE, <<>>))
    ELSE Returns(generate_client(api_calls_arg[1], use_models, FALSE, <<>>))

generate_from_har_reader(har_reader, reader_calls) ==
    IF ~har_reader THEN Raises(ValueError)
    ELSE GenerateClientOrRaise(<<>>, har_reader, reader_calls, FALSE)

ConfigArg(har_reader) == [fn |-> "config", har_reader |-> har_reader]

\* the record of the last call on the generator
Invocation(fn, api_calls_arg, outcome) ==
    [fn |-> fn, api_calls |-> api_calls_arg, raised |-> outcome.raised,
     returned |-> outcome.returned, before |-> client_code]

InitConfig ==
    /\ InitGenerators
    /\ model_generator = FALSE
    /\ \E har_reader \in BOOLEAN : arg = ConfigArg(har_reader)
    /\ res = <<>>

\* the attached reader exposes one more call
ReaderCapture(call) ==
    /\ arg.har_reader
    /\ Len(api_calls) < MaxCapture
    /\ api_calls' = Append(api_calls, call)
    /\ UNCHANGED <<models, client_code, model_generator, models_from, client_from, arg, res>>

\* the stored text after a call: assigned when the call returns, kept when it raises
StoredAfter(outcome) ==
    IF outcome.raised = "" THEN outcome.returned[1] ELSE client_code

\* generate_client(api_calls_arg, use_models)
CallGenerateClient(api_calls_arg, use_models) ==
    LET outcome == GenerateClientOrRaise(api_calls_arg, arg.har_reader, api_calls, use_models)
    IN  /\ client_code' = StoredAfter(outcome)
        /\ res' = <<Invocation("generate_client", api_calls_arg, outcome)>>
        /\ UNCHANGED <<api_calls, models, model_generator, models_from, client_from, arg>>

\* generate_from_har_reader()
CallGenerateFromHarReader ==
    LET outcome == generate_from_har_reader(arg.har_reader, api_calls)
    IN  /\ client_code' = StoredAfter(outcome)
        /\ res' = <<Invocation("generate_from_har_reader", <<>>, outcome)>>
        /\ UNCHANGED <<api_calls, models, model_generator, models_from, client_from, arg>>

NextConfig ==
    \/ \E call \in ConfigCalls : ReaderCapture(call)
    \/ \E use_models \in BOOLEAN : CallGenerateClient(<<>>, use_models)
    \/ \E k \in 0..MaxCapture, use_models \in BOOLEAN :
           \E calls \in [1..k -> ConfigCalls] : CallGenerateClient(<<calls>>, use_models)
    \/ CallGenerateFromHarReader

SpecConfig == InitConfig /\ [][NextConfig]_vars

(***************************************************************************)
(* generate_models_from_responses on one batch, with the bodies it skips   *)
(* and the response it does not survive.                                   *)
(***************************************************************************)
\* GET /pg with a response whose content is null
CallNull ==
    ApiCall([method |-> Get_, url |-> UrlPage, headers |-> <<>>],
            [status |-> 200, content |-> NullContent])

ModelsCatalogue == {CallList, CallHtml, CallPing, CallV2, CallNull}

\* generate_models_from_responses(calls) as the caller sees it
GenerateModelsOrRaise(calls) ==
    IF ModelsRaised(calls) # "" THEN Raises(ModelsRaised(calls))
    ELSE Returns(generate_models_from_responses(calls))

ModelsArg(calls) == [fn |-> "models", calls |-> calls]

InitModels ==
    /\ InitGenerators
    /\ model_generator = TRUE
    /\ \E k \in 0..MaxCalls : \E calls \in [1..k -> ModelsCatalogue] : arg = ModelsArg(calls)
    /\ res = <<>>

\* self.models is assigned when the loop ends, and kept when an exception leaves it
ApplyGenerateModels ==
    /\ res = <<>>
    /\ res' = <<GenerateModelsOrRaise(arg.calls)>>
    /\ models' = IF res'[1].raised = "" THEN res'[1].returned[1] ELSE models
    /\ UNCHANGED <<api_calls, client_code, model_generator, models_from, client_from, arg>>

NextModels == ApplyGenerateModels

SpecModels == InitModels /\ [][NextModels]_vars

(***************************************************************************)
(* Repeated generation calls on one ModelGenerator and one ClientGenerator *)
(* that holds it, each call with a batch of its own. res holds the last    *)
(* call of each operation.                                                 *)
(***************************************************************************)
\* GET /a@b with an object response whose key holds "class", a tab and a word
CallMail ==
    ApiCall([method |-> Get_, url |-> Url(<<"/","a","@","b">>), headers |-> <<>>],
            [status |-> 200, content |-> [text |-> TextClass]])

\* GET /c@d with an object response
CallMailOk ==
    ApiCall([method |-> Get_, url |-> Url(<<"/","c","@","d">>), headers |-> <<>>],
            [status |-> 200, content |-> [text |-> TextOk]])

\* GET /e:f with an object response
CallColon ==
    ApiCall([method |-> Get_, url |-> Url(<<"/","e",":","f">>), headers |-> <<>>],
            [status |-> 200, content |-> [text |-> TextOk]])

RunBatches ==
    { <<>>,
      <<CallMail, CallMailOk, CallColon>>,
      <<CallList, CallHtml>>,
      <<CallCreate, CallPing>>,
      <<CallV2, CallList, CallForm>>,
      <<CallRoot, CallRoot>>,
      <<CallRoot, CallNull>> }

RunsArg == [fn |-> "runs"]

NoRuns == [models_run |-> <<>>, client_run |-> <<>>]

InitRuns ==
    /\ InitGenerators
    /\ model_generator = TRUE
    /\ arg = RunsArg
    /\ res = NoRuns

\* model_generator.generate_models_from_responses(calls)
RunGenerateModels(calls) ==
    LET outcome == GenerateModelsOrRaise(calls)
    IN  /\ models' = IF outcome.raised = "" THEN outcome.returned[1] ELSE models
        /\ res' = [res EXCEPT !.models_run =
                       <<[calls |-> calls, raised |-> outcome.raised,
                          returned |-> outcome.returned]>>]
        /\ UNCHANGED <<api_calls, client_code, model_generator, models_from, client_from, arg>>

\* client_generator.generate_client(calls, use_models); table is
\* model_generator.models when the call is made
RunGenerateClient(calls, use_models) ==
    LET outcome == Returns(generate_client(calls, use_models, model_generator, models))
    IN  /\ client_code' = outcome.returned[1]
        /\ res' = [res EXCEPT !.client_run =
                       <<[calls |-> calls, use_models |-> use_models, table |-> models,
                          raised |-> outcome.raised, returned |-> outcome.returned]>>]
        /\ UNCHANGED <<api_calls, models, model_generator, models_from, client_from, arg>>

NextRuns ==
    \/ \E calls \in RunBatches : RunGenerateModels(calls)
    \/ \E calls \in RunBatches, use_models \in BOOLEAN : RunGenerateClient(calls, use_models)

SpecRuns == InitRuns /\ [][NextRuns]_vars

(***************************************************************************)
(* Claims about the generators (Spec)                                      *)
(***************************************************************************)
\* the lines of one kind of a model code
LinesOfKind(code, kind) == SelectSeq(code, LAMBDA line : line.kind = kind)

ClientDone == client_from # <<>>

\* the calls the last generate_client got, and those the last
\* generate_models_from_responses got
ClientCalls == SubSeq(api_calls, 1, client_from[1].calls)
ModelsCalls == SubSeq(api_calls, 1, models_from)

\* the derived endpoint name of the call at position i (batch index i - 1)
NameAt(calls, i) == _generate_method_name(calls[i], i - 1)

\* the positions of the calls of a batch that derive a name, in capture order
GroupOf(calls, name) ==
    SelectSeq([i \in DOMAIN calls |-> i], LAMBDA i : NameAt(calls, i) = name)

MethodsNamed(name) == {i \in DOMAIN client_code.methods : client_code.methods[i].name = name}

\* C1: the emitted client holds exactly one method for each distinct derived
\* endpoint name of the batch, however many calls derive it, and no method for a
\* name that no call derives.
C1_OneMethodPerName ==
    ClientDone =>
        /\ \A i \in DOMAIN ClientCalls : Cardinality(MethodsNamed(NameAt(ClientCalls, i))) = 1
        /\ \A m \in DOMAIN client_code.methods :
               \E i \in DOMAIN ClientCalls : client_code.methods[m].name = NameAt(ClientCalls, i)

\* C1 witness: three calls, two of them deriving the same name, gave two methods.
C1_Witness ==
    /\ ClientDone
    /\ Len(ClientCalls) = 3
    /\ NameAt(ClientCalls, 1) = NameAt(ClientCalls, 3)
    /\ NameAt(ClientCalls, 1) # NameAt(ClientCalls, 2)
    /\ Len(client_code.methods) = 2

TransportHeaders ==
    {<<"h","o","s","t">>,
     <<"c","o","n","t","e","n","t","-","l","e","n","g","t","h">>,
     <<"c","o","n","n","e","c","t","i","o","n">>}

IsTransportHeader(name) == Lower(name) \in TransportHeaders

\* the headers of the calls at the given positions, in capture order
RECURSIVE HeadersOf(_, _)
HeadersOf(calls, positions) ==
    IF positions = <<>> THEN <<>>
    ELSE (IF "headers" \in DOMAIN calls[Head(positions)].request
          THEN calls[Head(positions)].request.headers ELSE <<>>)
         \o HeadersOf(calls, Tail(positions))

\* C2: a header named host, content-length or connection, ignoring case, never
\* appears in the default headers of a generated method.
C2_NoTransportHeaders ==
    ClientDone =>
        \A m \in DOMAIN client_code.methods :
            \A h \in DOMAIN client_code.methods[m].headers :
                ~IsTransportHeader(client_code.methods[m].headers[h][1])

\* C2 witness: a group whose calls carry Host, HOST and Content-Length got a
\* method with default headers.
C2_Witness ==
    /\ ClientDone
    /\ ClientCalls = <<CallList, CallV2, CallHtml>>
    /\ Len(client_code.methods) = 1
    /\ client_code.methods[1].headers # <<>>

\* C3: the default headers of a method are the union of the non-excluded headers
\* of the calls of its group, each with the value of its first occurrence in
\* capture order.
C3_HeadersUnionFirstSeen ==
    ClientDone =>
        \A m \in DOMAIN client_code.methods :
            LET method == client_code.methods[m]
                seen == HeadersOf(ClientCalls, GroupOf(ClientCalls, method.name))
                kept == {i \in DOMAIN seen : ~IsTransportHeader(seen[i].name)}
            IN  /\ {method.headers[h][1] : h \in DOMAIN method.headers}
                       = {seen[i].name : i \in kept}
                /\ \A h \in DOMAIN method.headers :
                       \E i \in kept :
                           /\ seen[i].name = method.headers[h][1]
                           /\ seen[i].value = method.headers[h][2]
                           /\ \A j \in kept : seen[j].name = seen[i].name => i <= j

\* C3 witness: two calls of one group carry Accept with different values; the
\* method keeps the first value and also has the header only the second carries.
C3_Witness ==
    /\ ClientDone
    /\ ClientCalls = <<CallList, CallHtml>>
    /\ Len(client_code.methods) = 1
    /\ DictGet(client_code.methods[1].headers, HAccept) = "v1"
    /\ DictGet(client_code.methods[1].headers, HXB) = "v2"

\* the response body text of a call, "" when it has none
ResponseText(call) ==
    IF "content" \in DOMAIN call.response /\ "text" \in DOMAIN call.response.content
    THEN call.response.content.text ELSE ""

HasJsonResponse(call) == ResponseText(call) # "" /\ JsonLoads(ResponseText(call)).ok
HasNonJsonResponse(call) == ResponseText(call) # "" /\ ~JsonLoads(ResponseText(call)).ok

\* the model synthesized from the call at position i alone
ModelOfCallAt(calls, i) ==
    analyze_json_structure(JsonLoads(ResponseText(calls[i])).value,
                           _url_to_model_name(calls[i].url, i - 1))

Last(S) == CHOOSE i \in S : \A j \in S : j <= i

EntriesFor(url) == {e \in DOMAIN models : models[e][1] = url}

\* C4 as stated: the model table has at most one entry per URL, and the entry of
\* a URL is the model synthesized from the last call with that URL alone.
C4_EntryFromLastCall ==
    \A e \in DOMAIN models :
        LET url == models[e][1]
            sharing == {i \in DOMAIN ModelsCalls : ModelsCalls[i].url = url}
        IN  /\ Cardinality(EntriesFor(url)) = 1
            /\ sharing # {}
            /\ HasJsonResponse(ModelsCalls[Last(sharing)])
            /\ models[e][2] = ModelOfCallAt(ModelsCalls, Last(sharing))

\* C4 as amended: the model table has at most one entry per URL, and the entry of
\* a URL is the model synthesized from the last call with that URL whose
\* response body parses as JSON, alone and named with that call's index.
C4_EntryFromLastJsonCall ==
    /\ \A e \in DOMAIN models :
           LET url == models[e][1]
               parsed == {i \in DOMAIN ModelsCalls :
                             ModelsCalls[i].url = url /\ HasJsonResponse(ModelsCalls[i])}
           IN  /\ Cardinality(EntriesFor(url)) = 1
               /\ parsed # {}
               /\ models[e][2] = ModelOfCallAt(ModelsCalls, Last(parsed))
    /\ \A i \in DOMAIN ModelsCalls :
           HasJsonResponse(ModelsCalls[i]) => EntriesFor(ModelsCalls[i].url) # {}

\* C4 witness: three calls share a URL, the first two with different JSON
\* responses and the last with a response that is not JSON; the entry is the
\* model of the second.
C4_Witness ==
    /\ models_from = 3
    /\ api_calls = <<CallList, CallCreate, CallHtml>>
    /\ Len(models) = 1
    /\ models[1][2] = ModelOfCallAt(api_calls, 2)
    /\ models[1][2] # ModelOfCallAt(api_calls, 1)

\* both generators have run on the whole capture
BothDone == ClientDone /\ Len(ClientCalls) = Len(api_calls) /\ models_from = Len(api_calls)

RequestText(call) ==
    IF "postData" \in DOMAIN call.request /\ "text" \in DOMAIN call.request.postData
    THEN call.request.postData.text ELSE ""

\* C5 as stated: a call whose response body is present but not JSON leaves its
\* URL absent from the model table, and the client still has a method for it,
\* which uses the opaque (data=) body path.
C5_NonJsonAbsentAndOpaque ==
    BothDone =>
        \A i \in DOMAIN api_calls :
            HasNonJsonResponse(api_calls[i]) =>
                /\ EntriesFor(api_calls[i].url) = {}
                /\ \E m \in MethodsNamed(NameAt(api_calls, i)) :
                       client_code.methods[m].body.kind = "data"

\* C5 as amended: such a call stores no model (its URL is in the table only if
\* another call with the same URL has a JSON response), and the client still has
\* exactly one method for it, which uses the opaque body path exactly when the
\* request body of the first call of its group is present and not JSON.
C5_NonJsonSkippedAndMethodKept ==
    BothDone =>
        \A i \in DOMAIN api_calls :
            HasNonJsonResponse(api_calls[i]) =>
                /\ EntriesFor(api_calls[i].url) # {} =>
                       \E j \in DOMAIN api_calls :
                           /\ api_calls[j].url = api_calls[i].url
                           /\ HasJsonResponse(api_calls[j])
                /\ Cardinality(MethodsNamed(NameAt(api_calls, i))) = 1
                /\ \A m \in MethodsNamed(NameAt(api_calls, i)) :
                       LET first == api_calls[GroupOf(api_calls, NameAt(api_calls, i))[1]]
                       IN  client_code.methods[m].body.kind = "data"
                               <=> (RequestText(first) # "" /\ ~JsonLoads(RequestText(first)).ok)

\* C5 witness: a call with a response that is not JSON and no request body, after
\* a call with a form body: no model for its URL, and a method without body.
C5_Witness ==
    /\ BothDone
    /\ api_calls = <<CallForm, CallHtml>>
    /\ models = <<>>
    /\ Len(client_code.methods) = 2
    /\ client_code.methods[1].body.kind = "data"
    /\ client_code.methods[2].body.kind = "none"

\* the model table the model generator held when the client was generated
ModelsAtClient == IF client_from[1].models_from = 0 THEN <<>> ELSE models

WithModels == ClientDone /\ client_from[1].use_models /\ model_generator

\* the first call of the group of a method
FirstCallOf(method) == ClientCalls[GroupOf(ClientCalls, method.name)[1]]

(***************************************************************************)
(* Claims about the endpoint naming function (SpecName)                    *)
(***************************************************************************)
NameDone == arg.fn = "method_name" /\ res # <<>>

\* letters (those of ASCII and beyond), digits and underscore
IsIdentifier(name) ==
    /\ name # <<>>
    /\ \A i \in DOMAIN name : IsUnicodeWordChar(name[i])
    /\ ~IsDigit(name[1])

\* C6: for every call (any method token, any URL) and batch index, the derived
\* endpoint name is a source-safe identifier: non-empty, only letters, digits and
\* underscore, and not starting with a digit.
C6_NameIsIdentifier == NameDone => IsIdentifier(res[1])

\* The claimed cleaning, stated on its result: the text before the first '.' (and
\* '?') is cut into its maximal runs of letters and digits, and the runs are
\* joined by single underscores.
IsAlnum(c) == IsWordChar(c) /\ c # "_"

RECURSIVE AlnumRuns(_)
AlnumRuns(s) ==
    IF s = <<>> THEN <<>>
    ELSE IF ~IsAlnum(s[1]) THEN AlnumRuns(Tail(s))
    ELSE LET stops == {i \in DOMAIN s : ~IsAlnum(s[i])}
             k == IF stops = {} THEN Len(s)
                  ELSE (CHOOSE i \in stops : \A j \in stops : i <= j) - 1
         IN  <<SubSeq(s, 1, k)>> \o AlnumRuns(SubSeq(s, k + 1, Len(s)))

RECURSIVE JoinUnderscore(_)
JoinUnderscore(runs) ==
    IF runs = <<>> THEN <<>>
    ELSE IF Len(runs) = 1 THEN runs[1]
    ELSE runs[1] \o <<"_">> \o JoinUnderscore(Tail(runs))

BeforeFirst(s, stops) ==
    LET hit == {i \in DOMAIN s : s[i] \in stops}
    IN  IF hit = {} THEN s ELSE SubSeq(s, 1, (CHOOSE i \in hit : \A j \in hit : i <= j) - 1)

ClaimedClean(segment) == JoinUnderscore(AlnumRuns(BeforeFirst(segment, {".", "?"})))

\* the '/'-delimited segments of a path that are not empty
RECURSIVE NonEmptySegments(_)
NonEmptySegments(path) ==
    IF path = <<>> THEN <<>>
    ELSE IF path[1] = "/" THEN NonEmptySegments(Tail(path))
    ELSE LET seg == BeforeFirst(path, {"/"})
         IN  <<seg>> \o NonEmptySegments(SubSeq(path, Len(seg) + 1, Len(path)))

ClaimedName(call, index) ==
    LET segs == NonEmptySegments(UrlPath(call.url.rest))
    IN  IF segs # <<>>
        THEN Lower(call.method) \o <<"_">> \o ClaimedClean(segs[Len(segs)])
        ELSE Lower(call.method) \o <<"_","r","e","q","u","e","s","t","_">> \o IntToStr(index)

\* C7 as stated: for every call the derived name equals lower(method) + '_' +
\* clean(last path segment), or lower(method) + '_request_' + index when the path
\* has no non-empty segment.
C7_NameIsMethodAndSegment == NameDone => res[1] = ClaimedName(arg.call, arg.index)

\* C7 as amended: the derived name is that name, prefixed with call_ when it
\* starts with a digit.
C7_NameIsPrefixedMethodAndSegment ==
    NameDone =>
        LET claimed == ClaimedName(arg.call, arg.index)
        IN  res[1] = IF claimed # <<>> /\ IsDigit(claimed[1])
                     THEN <<"c","a","l","l","_">> \o claimed ELSE claimed

\* C7 witness: a segment with a run of special characters between two word
\* characters, under a method token that starts with a digit.
C7_Witness ==
    /\ NameDone
    /\ arg.call.url.rest = <<"/","B","-","@","B">>
    /\ arg.call.method = <<"1","A">>
    /\ res[1] = <<"c","a","l","l","_","1","a","_","B","_","B">>

(***************************************************************************)
(* Claims about type inference and model synthesis (SpecJson)              *)
(***************************************************************************)
InferDone == arg.fn = "infer" /\ res # <<>>
AnalyzeDone == arg.fn = "analyze" /\ res # <<>>

\* the claimed rules, by the JSON kind of the value
RECURSIVE ClaimedType(_)
ClaimedType(value) ==
    CASE value.t = "null" -> "Optional[Any]"
      [] value.t = "bool" -> "bool"
      [] value.t = "int" -> "int"
      [] value.t = "float" -> "float"
      [] value.t = "str" -> "str"
      [] value.t = "list" ->
            IF value.v = <<>> THEN "List[Any]" ELSE "List[" \o ClaimedType(value.v[1]) \o "]"
      [] value.t = "dict" -> "Dict[str, Any]"

\* C8: _infer_type gives every JSON value the type of its kind: null
\* Optional[Any], a boolean bool (never int), an integer int, a float float, a
\* string str, an empty array List[Any], a non-empty array List[type of its
\* first element] whatever its later elements, an object Dict[str, Any].
C8_InferTypeByKind == InferDone => res[1] = ClaimedType(arg.data)

\* C8 witness: an array whose first element is a boolean and whose second is an
\* integer was typed List[bool].
C8_Witness ==
    /\ InferDone
    /\ arg.data = JList(<<JTrue, JInt>>)
    /\ res[1] = "List[bool]"

\* C9: the record emitted for a JSON object has exactly one field line per key,
\* in the object's key order (line i is the field of key i).
C9_FieldsInKeyOrder ==
    (AnalyzeDone /\ arg.data.t = "dict") =>
        LET fields == LinesOfKind(res[1], "field")
            items == arg.data.v
        IN  /\ Len(fields) = Len(items)
            /\ \A i \in DOMAIN items :
                   /\ fields[i].name = _sanitize_field_name(items[i][1])
                   /\ fields[i].type = ClaimedType(items[i][2])

\* C9 witness: an object with two keys of different types, the non-boolean one
\* first, was emitted with its two fields in that order.
C9_Witness ==
    /\ AnalyzeDone
    /\ arg.data = JDict(<< <<KeyId, JInt>>, <<<<"I","f">>, JTrue>> >>)
    /\ LinesOfKind(res[1], "field") =
           << [kind |-> "field", name |-> KeyId, type |-> "int"],
              [kind |-> "field", name |-> <<"I","f","_">>, type |-> "bool"] >>

\* C10: for a non-empty array named N only the first element decides: an object
\* gives the record NItem built from that element's keys plus the marker that N
\* is a list of NItem; anything else gives the marker N = List[type of the first
\* element] and no class.
C10_FirstElementDecides ==
    (AnalyzeDone /\ arg.data.t = "list" /\ arg.data.v # <<>>) =>
        LET first == arg.data.v[1]
            code == res[1]
            classes == LinesOfKind(code, "class")
            fields == LinesOfKind(code, "field")
        IN  IF first.t = "dict"
            THEN /\ classes = << [kind |-> "class", name |-> arg.name \o <<"I","t","e","m">>] >>
                 /\ Len(fields) = Len(first.v)
                 /\ \A i \in DOMAIN fields :
                        fields[i].name = _sanitize_field_name(first.v[i][1])
                 /\ code[Len(code)] =
                        [kind |-> "list_of_item", name |-> arg.name,
                         item |-> arg.name \o <<"I","t","e","m">>]
            ELSE /\ classes = <<>>
                 /\ code = << [kind |-> "list_of_type", name |-> arg.name,
                               type |-> ClaimedType(first)] >>

\* C10 witness: an array of an object followed by a non-object was emitted as the
\* item record of the object.
C10_Witness ==
    /\ AnalyzeDone
    /\ arg.data.t = "list"
    /\ Len(arg.data.v) = 2
    /\ arg.data.v[1].t = "dict" /\ arg.data.v[1].v # <<>>
    /\ arg.data.v[2].t = "int"
    /\ LinesOfKind(res[1], "class") # <<>>
    /\ LinesOfKind(res[1], "field") # <<>>

\* the kinds of line that are comments
CommentKinds == {"simple_type", "empty_list", "list_of_item", "list_of_type"}

IsDegenerate(data) ==
    data.t \in {"null", "bool", "int", "float", "str"} \/ data = JList(<<>>)

\* C11: degenerate top-level values have a defined output: an empty object gives
\* a record named as requested with zero fields and a pass body; an empty array or
\* a bare primitive gives a comment-only placeholder that defines no class.
C11_DegenerateValues ==
    AnalyzeDone =>
        /\ arg.data = JDict(<<>>) =>
               /\ LinesOfKind(res[1], "class") = << [kind |-> "class", name |-> arg.name] >>
               /\ LinesOfKind(res[1], "field") = <<>>
               /\ Len(LinesOfKind(res[1], "pass")) = 1
               /\ res[1][Len(res[1])].kind = "pass"
        /\ IsDegenerate(arg.data) =>
               /\ res[1] # <<>>
               /\ \A i \in DOMAIN res[1] : res[1][i].kind \in CommentKinds

\* C11 witness: the empty object was analyzed under the name R3.
C11_Witness ==
    /\ AnalyzeDone
    /\ arg.data = JDict(<<>>)
    /\ arg.name = <<"R","3">>
    /\ Len(res[1]) = 8

\* C11 second case reached: the empty array gave a one-line placeholder.
C11_EmptyArrayReached ==
    /\ AnalyzeDone
    /\ arg.data = JList(<<>>)
    /\ Len(res[1]) = 1

SanitizeDone == arg.fn = "sanitize" /\ res # <<>>

\* the claimed steps: each hyphen, dot and space becomes an underscore; a leading
\* digit gets an underscore before it; a reserved word, ignoring case, gets an
\* underscore after it
ClaimedUnderscored(name) ==
    [i \in DOMAIN name |-> IF name[i] \in {"-", ".", " "} THEN "_" ELSE name[i]]

ClaimedPrefixed(name) ==
    LET u == ClaimedUnderscored(name)
    IN  IF Len(u) > 0 /\ IsDigit(u[1]) THEN <<"_">> \o u ELSE u

ClaimedField(name) ==
    LET q == ClaimedPrefixed(name)
    IN  IF \E w \in Keywords : Lower(q) = w THEN q \o <<"_">> ELSE q

\* C12: _sanitize_field_name returns the key with each hyphen, dot and space
\* replaced by underscore, then prefixed with an underscore if it starts with a
\* digit, then suffixed with an underscore if it equals a reserved word ignoring
\* case, and nothing else is changed.
C12_SanitizeSteps == SanitizeDone => res[1] = ClaimedField(arg.name)

\* C12 witness: a reserved word written in mixed case got the suffix, and a key
\* with a leading digit and a hyphen got the prefix.
C12_Witness ==
    /\ SanitizeDone
    /\ arg.name = <<"i","F">>
    /\ res[1] = <<"i","F","_">>

C12_PrefixReached ==
    /\ SanitizeDone
    /\ arg.name = <<"1","-","@">>
    /\ res[1] = <<"_","1","_","@">>

(***************************************************************************)
(* Claims about the model naming function (SpecModelName)                  *)
(***************************************************************************)
ModelNameDone == arg.fn = "model_name" /\ res # <<>>

\* the maximal runs of s that hold no separator
RECURSIVE RunsOutside(_, _)
RunsOutside(s, seps) ==
    IF s = <<>> THEN <<>>
    ELSE IF s[1] \in seps THEN RunsOutside(Tail(s), seps)
    ELSE LET run == BeforeFirst(s, seps)
         IN  <<run>> \o RunsOutside(SubSeq(s, Len(run) + 1, Len(s)), seps)

RECURSIVE ConcatCapitalized(_)
ConcatCapitalized(words) ==
    IF words = <<>> THEN <<>>
    ELSE Capitalize(words[1]) \o ConcatCapitalized(Tail(words))

\* the claimed name: the last non-empty path segment, cut at the first '.' or '?',
\* split into words at the separators, the words capitalized and concatenated;
\* Response + index when there is no segment, no stem or a stem starting with a
\* digit; then the suffix Model
ClaimedModelName(url, index, seps) ==
    LET segs == NonEmptySegments(UrlPath(url.rest))
        cut == IF segs = <<>> THEN <<>> ELSE BeforeFirst(segs[Len(segs)], {".", "?"})
        stem == ConcatCapitalized(RunsOutside(cut, seps))
    IN  (IF segs = <<>> \/ stem = <<>> \/ IsDigit(stem[1])
         THEN <<"R","e","s","p","o","n","s","e">> \o IntToStr(index)
         ELSE stem) \o <<"M","o","d","e","l">>

\* C13 as stated: the model name is stem + Model, the stem being the last
\* non-empty path segment without query and extension, split on underscore and
\* hyphen into words, each capitalized; Response + index when the path is empty,
\* the stem is empty or it starts with a digit.
C13_ModelNameFromSegment ==
    ModelNameDone => res[1] = ClaimedModelName(arg.url, arg.index, {"_", "-"})

\* C13 as amended: the same, the words being split on underscore, hyphen and
\* whitespace.
C13_ModelNameFromSegmentWords ==
    ModelNameDone => res[1] = ClaimedModelName(arg.url, arg.index, {"_", "-"} \cup Whitespace)

\* C13 witness: a segment of two words, the first in mixed case, gave AbA + Model.
C13_Witness ==
    /\ ModelNameDone
    /\ arg.url.rest = <<"/","a","B","-","a">>
    /\ res[1] = <<"A","b","A","M","o","d","e","l">>

\* C13 fallback reached: the empty path at index 3 gave Response3Model.
C13_FallbackReached ==
    /\ ModelNameDone
    /\ arg.url.rest = <<"/">>
    /\ arg.index = 3
    /\ res[1] = <<"R","e","s","p","o","n","s","e","3","M","o","d","e","l">>

\* C14: the model name holds no special character such as '@': it consists of
\* letters and digits only (those of ASCII and beyond).
C14_ModelNameHasNoSpecial ==
    ModelNameDone => \A i \in DOMAIN res[1] : IsUnicodeWordChar(res[1][i]) /\ res[1][i] # "_"

(***************************************************************************)
(* Claims about one emitted method (SpecMethod)                            *)
(***************************************************************************)
MethodDone == arg.fn = "method" /\ res # <<>>
MethodCalled == MethodDone /\ res[1].called

\* the claimed shallow merge: the defaults in their order, each with the
\* override's value if the override has its key, then the override's new keys
ClaimedMerge(defaults, override) ==
    LET Has(d, k) == \E i \in DOMAIN d : d[i][1] = k
        Val(d, k) == d[CHOOSE i \in DOMAIN d : d[i][1] = k][2]
    IN  [i \in DOMAIN defaults |->
            <<defaults[i][1],
              IF Has(override, defaults[i][1]) THEN Val(override, defaults[i][1])
              ELSE defaults[i][2]>>]
        \o SelectSeq(override, LAMBDA e : ~Has(defaults, e[1]))

\* the captured JSON payload of a method as a dict, empty when it has none
CapturedJson(method) ==
    IF method.body.kind = "json" /\ method.body.json_data.t = "dict"
    THEN method.body.json_data.v ELSE <<>>

\* C16: every emitted method, whatever its captured call held, accepts call-time
\* overrides for headers, query parameters and the body payload and shallow-merges
\* each on top of the captured defaults: the call does not fail, the headers and
\* parameters sent are the merge, a json override is merged into the captured
\* payload and sent, and a data override is sent, not ignored.
C16_OverridesAreMerged ==
    MethodCalled =>
        LET method == res[1].method
            kwargs == res[1].kwargs
            sent == res[1].outcome
        IN  /\ sent.raised = ""
            /\ sent.headers = ClaimedMerge(method.headers, KwGet(kwargs.headers, <<>>))
            /\ sent.params = ClaimedMerge(method.params, KwGet(kwargs.params, <<>>))
            /\ kwargs.json # <<>> =>
                   /\ sent.body.kind = "json"
                   /\ sent.body.json = ClaimedMerge(CapturedJson(method), kwargs.json[1])
            /\ kwargs.data # <<>> => sent.body.kind = "data"

\* the fields of a query string: the text between the '&'
QueryFields(query) == RunsOutside(query, {"&"})

FieldName(field) == BeforeFirst(field, {"="})

FieldValue(field) ==
    IF Len(FieldName(field)) = Len(field) THEN <<>>
    ELSE SubSeq(field, Len(FieldName(field)) + 2, Len(field))

\* the claimed parameters of a sequence of <<name, value>> pairs: one entry per
\* name in the order of first occurrence, a scalar for one occurrence and the
\* values in order for several
ClaimedParams(pairs) ==
    LET firsts == SelectSeq([i \in DOMAIN pairs |-> i],
                      LAMBDA i : \A j \in 1..(i - 1) : pairs[j][1] # pairs[i][1])
        ValuesOf(name) ==
            LET same == SelectSeq(pairs, LAMBDA f : f[1] = name)
            IN  [k \in DOMAIN same |-> same[k][2]]
    IN  [n \in DOMAIN firsts |->
            LET name == pairs[firsts[n]][1]
            IN  <<name,
                  IF Len(ValuesOf(name)) = 1
                  THEN [scalar |-> TRUE, value |-> ValuesOf(name)[1]]
                  ELSE [scalar |-> FALSE, value |-> ValuesOf(name)]>>]

\* the fields as written: name and value on either side of the first '='
WrittenPairs(fields) == [i \in DOMAIN fields |-> <<FieldName(fields[i]), FieldValue(fields[i])>>]

\* a field that has a '=' and a value after it
HasValue(field) == FieldValue(field) # <<>>

\* the fields with a value, name and value percent-decoded
DecodedPairs(fields) ==
    LET valued == SelectSeq(fields, HasValue)
    IN  [i \in DOMAIN valued |->
            <<Unquote(FieldName(valued[i])), Unquote(FieldValue(valued[i]))>>]

\* C17 as stated: the default parameters of a method come from the query string
\* of the URL of the group's first call only; a parameter occurring once is a
\* scalar and a parameter occurring several times is the sequence of its values
\* in URL order.
C17_ParamsOfFirstCall ==
    MethodDone =>
        res[1].method.params =
            ClaimedParams(WrittenPairs(QueryFields(UrlQuery(arg.calls[1].url.rest))))

\* C17 as amended: the same, counting only the occurrences that have a non-empty
\* value (an occurrence with an empty value or without '=' is dropped), with
\* names and values percent-decoded and '+' read as a space.
C17_ValuedParamsOfFirstCall ==
    MethodDone =>
        res[1].method.params =
            ClaimedParams(DecodedPairs(QueryFields(UrlQuery(arg.calls[1].url.rest))))

\* C17 witness: the first call has p twice and q once, a later call of the group
\* has other parameters; the method has p as a sequence and q as a scalar.
C17_Witness ==
    /\ MethodDone
    /\ arg.calls = <<CallV2, CallSearch>>
    /\ res[1].method.params =
           << <<<<"p">>, [scalar |-> FALSE, value |-> << <<"1">>, <<"2">> >>]>>,
              <<<<"q">>, [scalar |-> TRUE, value |-> <<"1">>]>> >>

\* C18: the body of a method is decided by the group's first call only: a body
\* that parses as JSON is sent as a JSON payload, a body that is not JSON as an
\* opaque string, and no body gives a method without body, even when later calls
\* of the group have one.
C18_BodyOfFirstCall ==
    MethodDone =>
        LET text == RequestText(arg.calls[1])
            body == res[1].method.body
        IN  IF text = "" THEN body = [kind |-> "none"]
            ELSE IF JsonLoads(text).ok
            THEN body = [kind |-> "json", json_data |-> JsonLoads(text).value]
            ELSE body = [kind |-> "data", data |-> text]

\* C18 witness: the first call of the group has no body and the second has a JSON
\* body; the method has no body.
C18_Witness ==
    /\ MethodDone
    /\ arg.calls = <<CallEmptyPost, CallCreate>>
    /\ res[1].method.body.kind = "none"

\* C18 other cases reached: a JSON body first, and an opaque body.
C18_JsonFirstReached ==
    /\ MethodDone
    /\ arg.calls = <<CallCreate, CallEmptyPost>>
    /\ res[1].method.body.kind = "json"

(***************************************************************************)
(* Claims about endpoint groups across URLs (Spec)                         *)
(***************************************************************************)
\* the names of the headers of a call that are not transport headers
KeptHeaderNames(call) ==
    LET seen == Get(call.request, "headers", <<>>)
    IN  {seen[i].name : i \in {k \in DOMAIN seen : ~IsTransportHeader(seen[k].name)}}

\* the claimed query parameters of a call: its valued fields, grouped by name
ParamsOfCall(call) ==
    ClaimedParams(DecodedPairs(QueryFields(UrlQuery(call.url.rest))))

NamesIn(dict) == {dict[i][1] : i \in DOMAIN dict}

\* the one method of the group of the call at position i
MethodOfCallAt(i) ==
    client_code.methods[CHOOSE m \in DOMAIN client_code.methods :
                            client_code.methods[m].name = NameAt(ClientCalls, i)]

\* C20 as stated: two calls of a batch that derive the same name are in one
\* endpoint group even when their URLs differ, and the method of the group merges
\* the headers and the query parameters of both calls.
C20_GroupMergesHeadersAndParams ==
    ClientDone =>
        \A i, j \in DOMAIN ClientCalls :
            NameAt(ClientCalls, i) = NameAt(ClientCalls, j) =>
                /\ Cardinality(MethodsNamed(NameAt(ClientCalls, i))) = 1
                /\ KeptHeaderNames(ClientCalls[i]) \cup KeptHeaderNames(ClientCalls[j])
                       \subseteq NamesIn(MethodOfCallAt(i).headers)
                /\ NamesIn(ParamsOfCall(ClientCalls[i])) \cup NamesIn(ParamsOfCall(ClientCalls[j]))
                       \subseteq NamesIn(MethodOfCallAt(i).params)

\* C20 as amended: the calls that derive one name, whatever their URLs, have one
\* method between them (so any two of them are in one group); the method has the
\* headers of each of them, and its query parameters are those of the first call
\* of the group alone.
C20_GroupMergesHeadersOnly ==
    ClientDone =>
        \A i \in DOMAIN ClientCalls :
            LET name == NameAt(ClientCalls, i)
                named == MethodsNamed(name)
            IN  /\ Cardinality(named) = 1
                /\ \A m \in named :
                       /\ KeptHeaderNames(ClientCalls[i])
                              \subseteq NamesIn(client_code.methods[m].headers)
                       /\ (\A k \in 1..(i - 1) : NameAt(ClientCalls, k) # name) =>
                              client_code.methods[m].params = ParamsOfCall(ClientCalls[i])

\* C20 witness: two calls on different hosts, paths and queries derive one name;
\* the one method has a header of each and the parameters of the first.
C20_Witness ==
    /\ ClientDone
    /\ ClientCalls = <<CallV2, CallList>>
    /\ CallV2.url # CallList.url
    /\ Len(client_code.methods) = 1
    /\ DictGet(client_code.methods[1].headers, HXA) = "v2"
    /\ DictGet(client_code.methods[1].headers, HAccept) = "v1"
    /\ NamesIn(client_code.methods[1].params) = {<<"p">>, <<"q">>}

\* C20: the parameters of a later call of the group are not in the method.
C20_LaterParamsDropped ==
    /\ ClientDone
    /\ ClientCalls = <<CallList, CallV2>>
    /\ Len(client_code.methods) = 1
    /\ client_code.methods[1].params = <<>>

(***************************************************************************)
(* Claims about the configuration error (SpecConfig)                       *)
(***************************************************************************)
ConfigCalled == arg.fn = "config" /\ res # <<>>

\* C19: generate_client called without a call list on a generator without reader
\* raises the configuration error, returns no text and leaves client_code as it
\* was; called with a call list, even an empty one, it does not raise, with or
\* without a reader.
C19_NoSourceRaises ==
    (ConfigCalled /\ res[1].fn = "generate_client") =>
        /\ (res[1].api_calls = <<>> /\ ~arg.har_reader) =>
               /\ res[1].raised = ValueError
               /\ res[1].returned = <<>>
               /\ client_code = res[1].before
        /\ res[1].api_calls # <<>> => res[1].raised = ""

\* C19 witness: a generator without reader that holds a generated client is called
\* without a call list; the call raises and the client is still stored.
C19_Witness ==
    /\ ConfigCalled
    /\ res[1].fn = "generate_client"
    /\ ~arg.har_reader
    /\ res[1].api_calls = <<>>
    /\ res[1].raised = ValueError
    /\ client_code.generated
    /\ Len(client_code.methods) = 2

\* C19: an explicit empty list on a generator without reader does not raise.
C19_EmptyListReached ==
    /\ ConfigCalled
    /\ res[1].fn = "generate_client"
    /\ ~arg.har_reader
    /\ res[1].api_calls = << <<>> >>
    /\ res[1].raised = ""
    /\ client_code.generated

(***************************************************************************)
(* Claims about skipped responses (SpecModels)                             *)
(***************************************************************************)
ModelsApplied == arg.fn = "models" /\ res # <<>>

\* C21: generate_models_from_responses skips a call whose response body is absent
\* or is not JSON without raising and without touching the table: the call
\* returns, every call of the batch with a JSON body has its entry, and the entry
\* of a URL is the model of the last call to it with a JSON body, whatever
\* skipped calls came before or after.
C21_SkippedWithoutRaising ==
    ModelsApplied =>
        /\ res[1].raised = ""
        /\ \A i \in DOMAIN arg.calls :
               HasJsonResponse(arg.calls[i]) => EntriesFor(arg.calls[i].url) # {}
        /\ \A e \in DOMAIN models :
               LET parsed == {i \in DOMAIN arg.calls :
                                 arg.calls[i].url = models[e][1] /\ HasJsonResponse(arg.calls[i])}
               IN  /\ parsed # {}
                   /\ models[e][2] = ModelOfCallAt(arg.calls, Last(parsed))

\* C21: without a null content the skipping is as claimed; a JSON call, a call to
\* the same URL that is not JSON and a call without body leave one entry.
C21_SkippedReached ==
    /\ ModelsApplied
    /\ arg.calls = <<CallList, CallHtml, CallPing>>
    /\ res[1].raised = ""
    /\ Len(models) = 1
    /\ models[1][2] = ModelOfCallAt(arg.calls, 1)

(***************************************************************************)
(* Claims about repeated runs (SpecRuns)                                   *)
(***************************************************************************)
\* the positions of a batch that satisfy Test and are the first of their Key
FirstsBy(calls, Test(_), Key(_)) ==
    SelectSeq([i \in DOMAIN calls |-> i],
              LAMBDA i : Test(i) /\ \A j \in 1..(i - 1) : Test(j) => Key(j) # Key(i))

\* the table of a batch alone: one entry per URL that has a JSON response, in
\* the order the URLs first have one, holding the model of the last such call
ClaimedTable(calls) ==
    LET Json(i) == HasJsonResponse(calls[i])
        UrlAt(i) == calls[i].url
        firsts == FirstsBy(calls, Json, UrlAt)
    IN  [n \in DOMAIN firsts |->
            <<UrlAt(firsts[n]),
              ModelOfCallAt(calls, Last({i \in DOMAIN calls : Json(i) /\ UrlAt(i) = UrlAt(firsts[n])}))>>]

\* the client of a batch alone, annotated from the given table: one method per
\* derived name in the order the names first occur
ClaimedClient(calls, use_models, table) ==
    LET Every(i) == TRUE
        Name(i) == NameAt(calls, i)
        firsts == FirstsBy(calls, Every, Name)
        Group(name) == [k \in DOMAIN GroupOf(calls, name) |-> calls[GroupOf(calls, name)[k]]]
    IN  [generated |-> TRUE,
         imports_models |-> use_models,
         methods |-> [n \in DOMAIN firsts |->
                         _generate_method(calls[firsts[n]], Name(firsts[n]), Group(Name(firsts[n])),
                                          IF use_models
                                          THEN _get_model_name_for_call(calls[firsts[n]], table)
                                          ELSE <<>>)]]

ModelsRan == arg.fn = "runs" /\ res.models_run # <<>>
ClientRan == arg.fn = "runs" /\ res.client_run # <<>>

\* C22: after any sequence of generation calls on the same generators, the model
\* table is what the last generate_models_from_responses call returned, which is
\* the table of its batch alone (no entry of an earlier batch survives), and
\* client_code is what the last generate_client call returned, which is the
\* client of its batch alone (annotated from the table held at that call); no
\* batch of an earlier call of the operation has a part.
C22_OnlyLastRun ==
    /\ ModelsRan =>
           /\ res.models_run[1].returned = <<models>>
           /\ models = ClaimedTable(res.models_run[1].calls)
           /\ \A e \in DOMAIN models :
                  \E i \in DOMAIN res.models_run[1].calls :
                      res.models_run[1].calls[i].url = models[e][1]
    /\ ClientRan =>
           /\ client_code = res.client_run[1].returned[1]
           /\ client_code = ClaimedClient(res.client_run[1].calls,
                                          res.client_run[1].use_models,
                                          res.client_run[1].table)

\* C22: the last generate_models_from_responses call, on a batch that holds a
\* response with a null content, raised; the table is still the one of an
\* earlier batch, with an entry for /us, a URL the last batch does not have.
C22_EarlierEntrySurvives ==
    /\ ModelsRan
    /\ res.models_run[1].calls = <<CallRoot, CallNull>>
    /\ res.models_run[1].raised = "AttributeError"
    /\ models = ClaimedTable(<<CallList, CallHtml>>)
    /\ models[1][1] = UrlUsers

\* C22: without such a response the state is the last run's alone. The last
\* model run was on a batch whose only JSON response is for / and the last client
\* run on a batch without that call, after other runs: the table holds / alone
\* and the client has no method of the earlier batches.
C22_LastRunAloneReached ==
    /\ ModelsRan
    /\ ClientRan
    /\ res.models_run[1].calls = <<CallRoot, CallRoot>>
    /\ res.client_run[1].calls = <<CallCreate, CallPing>>
    /\ res.client_run[1].table = ClaimedTable(<<CallList, CallHtml>>)
    /\ models = ClaimedTable(<<CallRoot, CallRoot>>)
    /\ Len(models) = 1
    /\ models[1][1] = CallRoot.url
    /\ Len(client_code.methods) = 2

(***************************************************************************)
(* Claims about the return type of a method (SpecRuns)                     *)
(***************************************************************************)
\* the last client run asked for model annotations
AnnotatedRun == ClientRan /\ res.client_run[1].use_models

\* the first call of the group of a method of that run
RunFirstCall(method) ==
    res.client_run[1].calls[GroupOf(res.client_run[1].calls, method.name)[1]]

\* the entry of the table of that run for a URL: <<>> or <<its code>>
EntryOfRun(url) ==
    LET table == res.client_run[1].table
        at == {e \in DOMAIN table : table[e][1] = url}
    IN  IF at = {} THEN <<>> ELSE <<table[CHOOSE e \in at : TRUE][2]>>

\* the name a model was generated under: the one its comment line gives for an
\* array, the one of its class for an object
GeneratedName(code) ==
    LET comments == SelectSeq(code, LAMBDA line : line.kind \in {"list_of_item", "list_of_type"})
    IN  IF comments # <<>> THEN comments[1].name ELSE LinesOfKind(code, "class")[1].name

\* C15 as stated: with model annotations requested and a model generator
\* attached, a method whose first call's URL has an entry in the model table
\* declares that model's generated name as return type, and a method whose first
\* call's URL has no entry declares none.
C15_ReturnTypeIsModelName ==
    AnnotatedRun =>
        \A m \in DOMAIN client_code.methods :
            LET method == client_code.methods[m]
                entry == EntryOfRun(RunFirstCall(method).url)
            IN  method.return_type =
                    IF entry # <<>> THEN <<GeneratedName(entry[1])>> ELSE <<>>

\* C15 as amended: such a method declares the name of the class that the code of
\* its URL's entry defines, when that name is made of word characters: the
\* model's generated name for an object, the item record's name for an array of
\* objects.  It declares nothing when the entry's code defines no class or the
\* URL has no entry.  A class whose name holds another character is not covered.
C15_ReturnTypeIsClassName ==
    AnnotatedRun =>
        \A m \in DOMAIN client_code.methods :
            LET method == client_code.methods[m]
                entry == EntryOfRun(RunFirstCall(method).url)
                classes == IF entry = <<>> THEN <<>> ELSE LinesOfKind(entry[1], "class")
            IN  IF classes = <<>> THEN method.return_type = <<>>
                ELSE (\A i \in DOMAIN classes[1].name : IsUnicodeWordChar(classes[1].name[i]))
                         => method.return_type = <<classes[1].name>>

\* C15 witness: one method declares the model of its URL, the next, whose URL has
\* no model, declares nothing.
C15_Witness ==
    /\ AnnotatedRun
    /\ res.client_run[1].calls = <<CallCreate, CallPing>>
    /\ EntryOfRun(UrlUsers) # <<>>
    /\ client_code.methods[1].return_type = << <<"U","s","M","o","d","e","l">> >>
    /\ client_code.methods[2].return_type = <<>>

\* C15 array case reached: the entry is the model of an array of objects, and the
\* method declares the item record's name.
C15_ItemNameReached ==
    /\ AnnotatedRun
    /\ res.client_run[1].calls = <<CallList, CallHtml>>
    /\ res.client_run[1].table = ClaimedTable(<<CallList, CallHtml>>)
    /\ Len(client_code.methods) = 1
    /\ client_code.methods[1].return_type =
           << <<"U","s","M","o","d","e","l","I","t","e","m">> >>

\* C15 placeholder case reached: the URL has an entry that defines no class, and
\* the method declares nothing.
C15_PlaceholderReached ==
    /\ AnnotatedRun
    /\ res.client_run[1].calls = <<CallRoot, CallRoot>>
    /\ EntryOfRun(UrlRoot) # <<>>
    /\ client_code.methods[1].return_type = <<>>

\* C15 cases left out: the class names A@bModel, C@dModel and E:fModel are not
\* made of word characters, and none is declared.  The first method declares the
\* word of a field line whose key is "class", a tab and "x"; the second declares
\* nothing; the third declares E, the part of its class name before the colon.
C15_OtherNamesReached ==
    /\ AnnotatedRun
    /\ res.client_run[1].calls = <<CallMail, CallMailOk, CallColon>>
    /\ EntryOfRun(CallMail.url) # <<>>
    /\ EntryOfRun(CallMailOk.url) # <<>>
    /\ EntryOfRun(CallColon.url) # <<>>
    /\ client_code.methods[1].return_type = << <<"x">> >>
    /\ client_code.methods[2].return_type = <<>>
    /\ client_code.methods[3].return_type = << <<"E">> >>

(***************************************************************************)
(* Claims about the origin of a return type (Spec)                         *)
(***************************************************************************)
\* the positions of the calls to a URL that have a JSON response
ParsedFor(url) ==
    {i \in DOMAIN ClientCalls : ClientCalls[i].url = url /\ HasJsonResponse(ClientCalls[i])}

\* C23 as stated: with model annotations, the return type of a method names a
\* model synthesized from the response of a call of the method's own endpoint
\* group, never of a call in another group.
C23_ReturnTypeFromOwnGroup ==
    WithModels =>
        \A m \in DOMAIN client_code.methods :
            LET method == client_code.methods[m]
                parsed == ParsedFor(FirstCallOf(method).url)
            IN  method.return_type # <<>> =>
                    /\ parsed # {}
                    /\ NameAt(ClientCalls, Last(parsed)) = method.name

\* C23 as amended: the return type is the name the class pattern finds in the
\* model synthesized from the last call to the URL of the group's first call that
\* has a JSON response, whichever group that call is in.
C23_ReturnTypeFromUrl ==
    WithModels =>
        \A m \in DOMAIN client_code.methods :
            LET method == client_code.methods[m]
                parsed == ParsedFor(FirstCallOf(method).url)
            IN  method.return_type # <<>> =>
                    /\ parsed # {}
                    /\ method.return_type =
                           ClassMatch(ModelOfCallAt(ClientCalls, Last(parsed)))

\* C23 witness: GET /us answers an array and POST /us an object; the method of
\* the GET declares the model of the POST's response, a call of another group.
C23_Witness ==
    /\ WithModels
    /\ ModelsAtClient # <<>>
    /\ ClientCalls = <<CallList, CallCreate>>
    /\ Len(client_code.methods) = 2
    /\ client_code.methods[1].method = Get_
    /\ NameAt(ClientCalls, 2) # client_code.methods[1].name
    /\ client_code.methods[1].return_type = ClassMatch(ModelOfCallAt(ClientCalls, 2))
    /\ client_code.methods[1].return_type # ClassMatch(ModelOfCallAt(ClientCalls, 1))

(***************************************************************************)
(* Claims about the field names of one record (SpecJson)                   *)
(***************************************************************************)
ObjectDone == AnalyzeDone /\ arg.data.t = "dict"

\* the field lines of the emitted record, in order
FieldsEmitted == LinesOfKind(res[1], "field")

\* C24 as stated: distinct keys of one object yield distinct field names, so the
\* emitted record never declares a field twice.
C24_FieldNamesDistinct ==
    ObjectDone =>
        \A i, j \in DOMAIN FieldsEmitted :
            FieldsEmitted[i].name = FieldsEmitted[j].name => i = j

\* C24 as amended: every key yields one field line, in key order, named by the
\* sanitized key; two distinct keys get the same field name only when the
\* sanitization changed at least one of them, and the record then declares that
\* name once for each of them.
C24_FieldPerKey ==
    ObjectDone =>
        /\ Len(FieldsEmitted) = Len(arg.data.v)
        /\ \A i \in DOMAIN FieldsEmitted :
               FieldsEmitted[i].name = ClaimedField(arg.data.v[i][1])
        /\ \A i, j \in DOMAIN FieldsEmitted :
               (i # j /\ FieldsEmitted[i].name = FieldsEmitted[j].name) =>
                   \/ FieldsEmitted[i].name # arg.data.v[i][1]
                   \/ FieldsEmitted[j].name # arg.data.v[j][1]

\* C24 witness: the keys a-b and a_b of one object both give the field a_b, and
\* the record declares it twice.
C24_Witness ==
    /\ ObjectDone
    /\ KeysOf(arg.data.v) = << <<"a","-","b">>, <<"a","_","b">> >>
    /\ Len(FieldsEmitted) = 2
    /\ FieldsEmitted[1].name = <<"a","_","b">>
    /\ FieldsEmitted[2].name = <<"a","_","b">>

(***************************************************************************)
(* Claims about fallback names in one batch (Spec)                         *)
(***************************************************************************)
\* the path of the call's URL has no non-empty segment
NoSegment(call) == RunsOutside(UrlPath(call.url.rest), {"/"}) = <<>>

\* C25: two calls of one batch whose URL paths have no non-empty segment get
\* different derived names, are never in one group and have a method each, even
\* when their method and URL are the same.
C25_FallbackNamesDiffer ==
    ClientDone =>
        \A i \in DOMAIN ClientCalls :
            NoSegment(ClientCalls[i]) =>
                /\ Cardinality(MethodsNamed(NameAt(ClientCalls, i))) = 1
                /\ \A j \in DOMAIN ClientCalls :
                       (j # i /\ NoSegment(ClientCalls[j])) =>
                           /\ NameAt(ClientCalls, i) # NameAt(ClientCalls, j)
                           /\ MethodsNamed(NameAt(ClientCalls, i))
                                  # MethodsNamed(NameAt(ClientCalls, j))

\* C25 witness: the same GET / twice in one batch gave two methods, named with the
\* indexes 0 and 1.
C25_Witness ==
    /\ ClientDone
    /\ ClientCalls = <<CallRoot, CallRoot>>
    /\ Len(client_code.methods) = 2
    /\ client_code.methods[1].name = <<"g","e","t","_","r","e","q","u","e","s","t","_","0">>
    /\ client_code.methods[2].name = <<"g","e","t","_","r","e","q","u","e","s","t","_","1">>

(***************************************************************************)
(* Claims about header names that differ in case (Spec)                    *)
(***************************************************************************)
\* C26: the default headers of a method never hold two entries whose names are
\* equal ignoring case; a header seen again in the group under another
\* capitalization is the same header and keeps its first-seen value.
C26_HeaderNamesDistinctIgnoringCase ==
    ClientDone =>
        \A m \in DOMAIN client_code.methods :
            LET method == client_code.methods[m]
                seen == HeadersOf(ClientCalls, GroupOf(ClientCalls, method.name))
            IN  /\ \A h, k \in DOMAIN method.headers :
                       Lower(method.headers[h][1]) = Lower(method.headers[k][1]) => h = k
                /\ \A h \in DOMAIN method.headers :
                       \E i \in DOMAIN seen :
                           /\ Lower(seen[i].name) = Lower(method.headers[h][1])
                           /\ seen[i].value = method.headers[h][2]
                           /\ \A j \in 1..(i - 1) :
                                  Lower(seen[j].name) # Lower(seen[i].name)

\* C26: the method of a call that carries Accept and accept has both entries,
\* each with its own value.
C26_BothCapitalizationsReached ==
    /\ ClientDone
    /\ ClientCalls = <<CallHtml>>
    /\ DictGet(client_code.methods[1].headers, HAccept) = "v2"
    /\ DictGet(client_code.methods[1].headers, HAcceptLower) = "v2"

====
